---- MODULE Spec2Model ----
(***************************************************************************)
(* Model of the matching engine of dalma320/photo-mvp.                     *)
(*                                                                         *)
(* src/app/find/find-client.tsx holds two FindClient components:           *)
(*   - lines 1-886,   the face-api variant: runMatching scans the event    *)
(*     photos in batches, two scoreOne workers at a time, and can be       *)
(*     cancelled with abortScan (specification Spec);                      *)
(*   - lines 888-1522, the embedding variant: runMatching compares the     *)
(*     selfie embedding with the stored embeddings in one pass             *)
(*     (specification SpecEmb).                                            *)
(*                                                                         *)
(* JavaScript is single threaded: an action of the model is one            *)
(* synchronous run of the code, from the event or promise settlement that  *)
(* resumes it up to the next await that waits for the network or for the   *)
(* face detector.                                                          *)
(***************************************************************************)
EXTENDS Integers, Sequences, FiniteSets, TLC

\* ------------------------------------------------------------------------
\* Sizes.  CONCURRENCY is the value of the source.  The other knobs of the
\* source (scanBatchSize 60, scanMax 240, TOP_KEEP 25, the display cut 8)
\* are scaled down, keeping CONCURRENCY < scanBatchSize < scanMax and
\* SHOW_TOP < TOP_KEEP < scanMax, so that chunks, batches, the pool ceiling
\* and both truncations all happen within MaxPhotos photos.
\* ------------------------------------------------------------------------
CONCURRENCY == 2
scanBatchSize == 3
scanMax == 4
TOP_KEEP == 3
SHOW_TOP == 2
MaxScore == 2
\* One photo more than the pool ceiling can be listed.
MaxPhotos == scanMax + 1
\* useState(0.88) on the score grid.  The attendee leaves the slider alone.
defaultThreshold == 2
\* Embedding variant: slice(0, 24); one photo more than is displayed.
EMB_KEEP == 3
MaxEmbPhotos == SHOW_TOP + 1
\* useState(0.55), in hundredths
embThreshold == 55
\* Longest vector given to a similarity function.
MaxDim == 2
\* Most faces in a provider response.
MaxFaces == 2
\* Longest timeout a caller asks for, in units of time, and most items of a
\* run.
MaxMs == 2
MaxItems == 3
\* Most files of a bulk upload run, and the ceiling of its concurrency
\* (Math.min(16, uploadConcurrency), scaled down).
MaxFiles == 3
maxUploadConcurrency == 2
\* Most rows of an ingest retry, and the ceiling of its concurrency
\* (clamp(concurrency, 1, 8), scaled down).
MaxRows == 3
maxIngestConcurrency == 2
\* Photos that can be saved, and match sessions started after the first.
MaxKeys == 2
MaxSessions == 2
MaxUids == 2
MaxChanges == 3
MaxEventPhotos == 9
MaxToggles == 3
MaxFaceMatches == 2
TargetSize == 2

Min(a, b) == IF a < b THEN a ELSE b

Take(s, n) == SubSeq(s, 1, Min(n, Len(s)))

\* Similarity scores of the face-api variant, on an integer grid.
Scores == 1..MaxScore
\* What analysing an event photo gives: no usable descriptor, or the best
\* similarity of its faces to the attendee's selfie.
Unknown == [tag |-> "unknown", best |-> 0]
Kinds == {[tag |-> "fail", best |-> 0]} \cup {[tag |-> "faces", best |-> b] : b \in Scores}
\* The ways scoreOne can fail to get a descriptor for a photo.
Failures == {"fetchErr", "decodeErr", "detectErr", "noFace"}
\* What the analysis of a photo of kind k can give.
Outcomes(k) ==
  IF k.tag = "fail" THEN {[tag |-> e, best |-> 0] : e \in Failures} ELSE {k}

Slots == {"auto", "manual"}

Null == [kind |-> "null"]
Throw == [kind |-> "throw"]
Item(p, sc) == [kind |-> "item", idx |-> p, score |-> sc]

VARIABLES
  \* React state and refs of FindClient (face-api variant)
  eventPhotos, loadingEventPhotos, effectPending, file, uploading,
  matchLoading, matchMessage, matches, threshold, progress,
  abortRef, autoRanRef, modelsReadyRef,
  \* the event's photos, as far as any session has analysed them
  photoKind,
  \* the two callers of runMatching and the locals of their runMatching call
  pc, photos, thr, start, i, scoredAll, chunk,
  \* observations of each slot's current session
  cancelled, fetched, pub, term,
  \* the final result of the latest earlier session that completed without a
  \* cancel, with its pool size and threshold
  lastFinal,
  \* the embedding variant of FindClient
  ec,
  \* one call of a similarity function: its arguments and what it returned
  sim,
  \* one call of an embedding adapter: the provider's response and the result
  ad,
  \* one descriptor resolution and the timer it runs under, if any
  rs,
  \* the best-of list of one runMatching call, batch after batch
  mg,
  \* one request to the embed endpoint
  ep,
  \* one bulk upload run of the admin page
  up,
  \* one run of the ingest retry queue
  iq,
  \* the save buttons of FindClient
  sv,
  \* the auto-match effect of one mounted FindClient and what it depends on
  au,
  \* one request to the image proxy
  px,
  \* the moment selection of the admin event page
  mo,
  \* one invocation of matchSelfieOnUpload
  sf,
  \* one call of compressImageToTarget
  cp

fcVars == <<eventPhotos, loadingEventPhotos, effectPending, file, uploading,
            matchLoading, matchMessage, matches, threshold, progress,
            abortRef, autoRanRef, modelsReadyRef, photoKind,
            pc, photos, thr, start, i, scoredAll, chunk,
            cancelled, fetched, pub, term, lastFinal>>

lastVars == <<au, px, mo, sf, cp>>

moreVars == <<mg, ep, up, iq, sv, lastVars>>

vars == <<fcVars, ec, sim, ad, rs, moreVars>>

\* ------------------------------------------------------------------------
\* Pure parts of runMatching (face-api variant)
\* ------------------------------------------------------------------------

\* Array.prototype.sort((a, b) => b.score - a.score): descending and stable.
RECURSIVE InsertDesc(_, _)
InsertDesc(x, s) ==
  IF s = <<>> THEN <<x>>
  ELSE IF Head(s).score >= x.score THEN <<Head(s)>> \o InsertDesc(x, Tail(s))
  ELSE <<x>> \o s

RECURSIVE SortInto(_, _)
SortInto(s, acc) ==
  IF s = <<>> THEN acc ELSE SortInto(Tail(s), InsertDesc(Head(s), acc))

sortByScoreDesc(s) == SortInto(s, <<>>)

\* keepTop without its sort: splice(TOP_KEEP) of the list in arrival order
keepTop_noSort(arr) == Take(arr, TOP_KEEP)

\* keepTop: sort, then splice(TOP_KEEP)
keepTop(arr) == Take(sortByScoreDesc(arr), TOP_KEEP)

atLeast(arr, t) == SelectSeq(arr, LAMBDA x : x.score >= t)

\* per-batch publish: filter, sort, slice(0, 8)
batchTop(arr, t) == Take(sortByScoreDesc(atLeast(arr, t)), SHOW_TOP)

\* final publish: sort, filter, slice(0, 8)
finalTop(arr, t) == Take(atLeast(sortByScoreDesc(arr), t), SHOW_TOP)

\* the pool without its ceiling: eventPhotos.slice(0)
poolTotal_noCeiling(n) == n

\* total = Math.min(scanMax, eventPhotos.length)
poolTotal(n) == Min(scanMax, n)

\* scoreOne without its try/catch: an exception rejects the worker's promise.
scoreOne_noCatch(p, o) ==
  IF o.tag \in {"fetchErr", "decodeErr", "detectErr"} THEN Throw
  ELSE IF o.tag = "noFace" THEN Null
  ELSE Item(p, IF o.best > -1 THEN o.best ELSE -1)

\* scoreOne after its abort check: what it returns for outcome o of photo p.
\* Every exception of the fetch, the decode and the detector is caught.
scoreOne(p, o) ==
  IF o.tag \in {"fetchErr", "decodeErr", "detectErr"} THEN Null
  ELSE IF o.tag = "noFace" THEN Null
  ELSE Item(p, IF o.best > -1 THEN o.best ELSE -1)

\* The first line of scoreOne: with the abort flag set it returns null
\* without fetching.
scoreOneFetches(abort) == ~abort

\* batch.slice(j, j + CONCURRENCY + 1): one worker too many
chunkOf_oneMore(st, j, total) ==
  LET end == Min(total, st + scanBatchSize)
      lo == st + j + 1
      hi == Min(end, st + j + CONCURRENCY + 1)
  IN [k \in 1..(hi - lo + 1) |-> lo + k - 1]

\* The photo indices (1-based, pool order) of the chunk at batch offset st,
\* position j: batch.slice(j, j + CONCURRENCY).
chunkOf(st, j, total) ==
  LET end == Min(total, st + scanBatchSize)
      lo == st + j + 1
      hi == Min(end, st + j + CONCURRENCY)
  IN [k \in 1..(hi - lo + 1) |-> lo + k - 1]

\* the push without its test of the score: every result that is not null
pushScored_anyScore(all, results) ==
  all \o SelectSeq(results, LAMBDA r : r.kind = "item")

\* for (const r of results) if (r && r.score >= 0) scoredAll.push(r)
RECURSIVE pushScored(_, _)
pushScored(all, results) ==
  IF results = <<>> THEN all
  ELSE LET r == Head(results)
       IN pushScored(IF r.kind = "item" /\ r.score >= 0 THEN Append(all, r) ELSE all,
                     Tail(results))

\* setProgress without the Math.min
chunkProgress_noMin(st, j, total) == [done |-> st + j, total |-> total]

\* setProgress of line 293
chunkProgress(st, j, total) == [done |-> Min(total, st + j), total |-> total]


\* ------------------------------------------------------------------------
\* One synchronous run of runMatching, as a function on a frame: the shared
\* state it writes and the locals of the call.
\* ------------------------------------------------------------------------
Running == {"models", "selfie", "scan"}

NoPub(total) ==
  [results |-> FALSE, matches |-> <<>>, done |-> 0, total |-> total, thr |-> 0]

Frame(s) ==
  [pc |-> pc[s], start |-> start[s], i |-> i[s], scoredAll |-> scoredAll[s],
   chunk |-> chunk[s], fetched |-> fetched[s], pub |-> pub[s], term |-> term[s],
   cancelled |-> cancelled[s], photos |-> photos[s], thr |-> thr[s],
   abort |-> abortRef, loading |-> matchLoading, matches |-> matches,
   msg |-> matchMessage, progress |-> progress, models |-> modelsReadyRef]

setMatches(f, m) ==
  [f EXCEPT !.matches = m,
            !.pub = [@ EXCEPT !.matches = m, !.results = TRUE]]

setMatchMessage(f, m) == [f EXCEPT !.msg = m]

setProgress(f, p) ==
  [f EXCEPT !.progress = p,
            !.pub = [@ EXCEPT !.done = p.done, !.total = p.total]]

\* return through the finally block of runMatching: setMatchLoading(false)
finish(f, t) ==
  [f EXCEPT !.loading = FALSE, !.pc = "idle", !.term = t,
            !.chunk = <<>>, !.scoredAll = <<>>, !.start = 0, !.i = 0,
            !.photos = 0, !.thr = defaultThreshold]

\* the catch block with setMatchLoading(false) left out
failed_noFinally(f) ==
  [setMatchMessage(f, "failed") EXCEPT !.pc = "idle", !.term = "failed", !.chunk = <<>>,
                                       !.scoredAll = <<>>, !.start = 0, !.i = 0,
                                       !.photos = 0, !.thr = defaultThreshold]

\* catch (e) of runMatching
failed(f) == finish(setMatchMessage(f, "failed"), "failed")

\* a chunk whose first photo is scored a second time
startChunk_again(f, total) ==
  LET ids == chunkOf(f.start, f.i, total)
      go == scoreOneFetches(f.abort)
  IN [f EXCEPT !.pc = "scan",
               !.chunk = [k \in 1..Len(ids) |->
                            [idx |-> ids[k], st |-> IF go THEN "inflight" ELSE "done",
                             res |-> Null]],
               !.fetched = IF go THEN @ \o ids \o <<ids[1]>> ELSE @]

\* chunk.map(scoreOne): every worker runs up to its first await
startChunk(f, total) ==
  LET ids == chunkOf(f.start, f.i, total)
      go == scoreOneFetches(f.abort)
  IN [f EXCEPT !.pc = "scan",
               !.chunk = [k \in 1..Len(ids) |->
                            [idx |-> ids[k], st |-> IF go THEN "inflight" ELSE "done",
                             res |-> Null]],
               !.fetched = IF go THEN @ \o ids ELSE @]

\* lines 311-324: after the batch loop
afterLoop(f, t) ==
  IF f.abort THEN finish(f, "cancelled")
  ELSE LET g == [f EXCEPT !.scoredAll = sortByScoreDesc(@)]
           top == finalTop(g.scoredAll, t)
       IN finish(setMatchMessage(setMatches(g, top),
                                 IF top = <<>> THEN "doneEmpty" ELSE "doneFound"),
                 "completed")

\* lines 273-286: one iteration of the batch loop, up to its first chunk
batchLoop(f, total, t) ==
  IF f.abort THEN afterLoop(f, t)
  ELSE startChunk(setMatchMessage([f EXCEPT !.i = 0], "scanning"), total)

\* lines 296-309: the end of a batch, and the loop's next iteration
endBatch(f, total, t) ==
  LET g == [f EXCEPT !.scoredAll = keepTop(@)]
      top == batchTop(g.scoredAll, t)
      h == setMatchMessage(setMatches(g, top),
                           IF top # <<>> THEN "found" ELSE "searching")
      k == [h EXCEPT !.start = @ + scanBatchSize]
  IN IF k.start < total THEN batchLoop(k, total, t) ELSE afterLoop(k, t)

\* progress that counts only the photos that gave a score
afterChunk_countScored(f, results, total, t) ==
  LET g == [f EXCEPT !.scoredAll = pushScored(@, results), !.i = @ + CONCURRENCY]
      h == setProgress(g, [done |-> Min(total, Len(g.scoredAll)), total |-> total])
      batchLen == Min(total, h.start + scanBatchSize) - h.start
  IN IF h.i < batchLen /\ ~h.abort THEN startChunk(h, total)
     ELSE endBatch(h, total, t)

\* lines 286-294: Promise.all has resolved with results
afterChunk(f, results, total, t) ==
  LET g == [f EXCEPT !.scoredAll = pushScored(@, results), !.i = @ + CONCURRENCY]
      h == setProgress(g, chunkProgress(g.start, g.i, total))
      batchLen == Min(total, h.start + scanBatchSize) - h.start
  IN IF h.i < batchLen /\ ~h.abort THEN startChunk(h, total)
     ELSE endBatch(h, total, t)

\* the results in the order in which the workers settled
chunkResults_bySettling(ch, w, res) ==
  [k \in 1..Len(ch) |-> IF k = Len(ch) THEN res
                        ELSE ch[CHOOSE v \in DOMAIN ch :
                                  /\ v # w
                                  /\ Cardinality({u \in DOMAIN ch : u # w /\ u < v}) = k - 1].res]

\* Promise.all(chunk.map(scoreOne)) resolves with the results in chunk order,
\* whatever the order in which the workers settled.
chunkResults(ch, w, res) ==
  [k \in 1..Len(ch) |-> IF k = w THEN res ELSE ch[k].res]

\* Promise.race in the place of Promise.all: the first worker to settle
\* resumes runMatching
allSettled_first(ch, w) == TRUE

\* Promise.all resolves when worker w settles and no other worker of the
\* chunk is still pending.
allSettled(ch, w) == \A v \in DOMAIN ch : v # w => ch[v].st # "inflight"

\* a worker that pushes its own result onto scoredAll when it returns
workerDone_pushes(f, w, res) ==
  [f EXCEPT !.chunk[w] = [@ EXCEPT !.st = "done", !.res = res],
            !.scoredAll = pushScored(@, <<res>>)]

\* scoreOne returns while another worker of the chunk is pending: its result
\* waits in the array Promise.all will resolve with.
workerDone(f, w, res) ==
  [f EXCEPT !.chunk[w] = [@ EXCEPT !.st = "done", !.res = res]]

\* lines 201-217: runMatching up to the await of ensureModels
runMatching(f, n) ==
  IF n = 0 THEN [setMatchMessage(f, "noPhotos") EXCEPT !.pc = "idle", !.term = "nophotos",
                                                       !.photos = 0, !.thr = defaultThreshold]
  ELSE LET g == [f EXCEPT !.abort = FALSE, !.loading = TRUE, !.matches = <<>>,
                          !.progress = [done |-> 0, total |-> poolTotal(n)],
                          !.pub = [NoPub(poolTotal(n)) EXCEPT !.thr = f.thr],
                          !.start = 0, !.i = 0, !.scoredAll = <<>>]
       IN IF g.models THEN [setMatchMessage(g, "analyzingSelfie") EXCEPT !.pc = "selfie"]
          ELSE [setMatchMessage(g, "loadingModels") EXCEPT !.pc = "models"]

\* A new session in slot s: nothing observed yet.
Fresh(f) ==
  [f EXCEPT !.cancelled = FALSE, !.fetched = <<>>, !.pub = NoPub(0), !.term = "none"]

\* The observations of a session (cancelled: abortScan was called while it
\* was scanning; fetched: the photos its workers began to fetch; pub: what it last
\* published; term: how it returned) are kept
\* while it runs and in the state in which it has just returned; the next
\* step of the component drops them.
Observed(s, old, new, none) ==
  [t \in Slots |-> IF t = s THEN new
                   ELSE IF pc[t] \in Running THEN old[t]
                   ELSE none]

\* A session that has just completed without a cancel becomes the earlier
\* session of the sessions after it.
Remember ==
  lastFinal' =
    IF \E t \in Slots : term[t] = "completed" /\ ~cancelled[t]
    THEN LET t == CHOOSE t \in Slots : term[t] = "completed" /\ ~cancelled[t]
         IN [set |-> TRUE, total |-> pub[t].total, thr |-> pub[t].thr,
             matches |-> pub[t].matches]
    ELSE lastFinal

Forget ==
  /\ Remember
  /\ fetched' = [t \in Slots |-> IF pc[t] \in Running THEN fetched[t] ELSE <<>>]
  /\ pub' = [t \in Slots |-> IF pc[t] \in Running THEN pub[t] ELSE NoPub(0)]
  /\ term' = [t \in Slots |-> IF pc[t] \in Running THEN term[t] ELSE "none"]
  /\ cancelled' = [t \in Slots |-> pc[t] \in Running /\ cancelled[t]]

\* The frame written back; a manual session that has returned also runs the
\* finally block of handleUploadSelfie.
Commit(s, frame) ==
  \E f \in {frame} :
  /\ pc' = [pc EXCEPT ![s] = f.pc]
  /\ start' = [start EXCEPT ![s] = f.start]
  /\ i' = [i EXCEPT ![s] = f.i]
  /\ scoredAll' = [scoredAll EXCEPT ![s] = f.scoredAll]
  /\ chunk' = [chunk EXCEPT ![s] = f.chunk]
  /\ fetched' = Observed(s, fetched, f.fetched, <<>>)
  /\ pub' = Observed(s, pub, f.pub, NoPub(0))
  /\ term' = Observed(s, term, f.term, "none")
  /\ cancelled' = Observed(s, cancelled, f.cancelled, FALSE)
  /\ photos' = [photos EXCEPT ![s] = f.photos]
  /\ thr' = [thr EXCEPT ![s] = f.thr]
  /\ abortRef' = f.abort
  /\ matchLoading' = f.loading
  /\ matches' = f.matches
  /\ matchMessage' = f.msg
  /\ progress' = f.progress
  /\ modelsReadyRef' = f.models
  /\ uploading' = IF s = "manual" /\ f.pc = "idle" THEN FALSE ELSE uploading
  /\ Remember


\* ------------------------------------------------------------------------
\* FindClient, face-api variant: initial state and actions
\* ------------------------------------------------------------------------
\* The embedding variant is not mounted.
ecIdle == [pc |-> "off", loadingEventPhotos |-> FALSE, lookup |-> FALSE,
           autoRanRef |-> FALSE, eventPhotos |-> <<>>, captured |-> <<>>,
           file |-> FALSE, uploading |-> FALSE, matchLoading |-> FALSE,
           matchMessage |-> "", matches |-> <<>>, q |-> <<>>, pool |-> <<>>, scored |-> <<>>,
           published |-> FALSE, term |-> "none"]

\* After the mount effects: safeUid is set and loadEventPhotos is waiting
\* for the listing.
InitFc ==
  /\ eventPhotos = 0
  /\ loadingEventPhotos = TRUE
  /\ effectPending = FALSE
  /\ file = FALSE
  /\ uploading = FALSE
  /\ matchLoading = FALSE
  /\ matchMessage = ""
  /\ matches = <<>>
  /\ threshold = defaultThreshold
  /\ progress = [done |-> 0, total |-> 0]
  /\ abortRef = FALSE
  /\ autoRanRef = FALSE
  /\ modelsReadyRef = FALSE
  /\ photoKind = [p \in 1..MaxPhotos |-> Unknown]
  /\ pc = [s \in Slots |-> "idle"]
  /\ photos = [s \in Slots |-> 0]
  /\ thr = [s \in Slots |-> defaultThreshold]
  /\ start = [s \in Slots |-> 0]
  /\ i = [s \in Slots |-> 0]
  /\ scoredAll = [s \in Slots |-> <<>>]
  /\ chunk = [s \in Slots |-> <<>>]
  /\ cancelled = [s \in Slots |-> FALSE]
  /\ fetched = [s \in Slots |-> <<>>]
  /\ pub = [s \in Slots |-> NoPub(0)]
  /\ term = [s \in Slots |-> "none"]
  /\ lastFinal = [set |-> FALSE, total |-> 0, thr |-> 0, matches |-> <<>>]

\* No similarity call, adapter call or resolution is being followed.
simIdle == [pc |-> "off"]
adIdle == [pc |-> "off"]
rsIdle == [pc |-> "off"]
mgIdle == [pc |-> "off"]
epIdle == [pc |-> "off"]
upIdle == [pc |-> "off"]
iqIdle == [pc |-> "off"]
svIdle == [pc |-> "off"]
Off == [pc |-> "off"]
LastIdle == au = Off /\ px = Off /\ mo = Off /\ sf = Off /\ cp = Off
MoreIdle ==
  /\ mg = mgIdle /\ ep = epIdle /\ up = upIdle /\ iq = iqIdle /\ sv = svIdle
  /\ LastIdle
RestIdle == sim = simIdle /\ ad = adIdle /\ rs = rsIdle /\ MoreIdle

Init == InitFc /\ ec = ecIdle /\ RestIdle

\* loadEventPhotos settles: n photos listed (0 also when the listing failed).
\* The render that follows runs the auto-match effect before any user event.
EventPhotosLoaded ==
  /\ loadingEventPhotos
  /\ \E n \in 0..MaxPhotos : eventPhotos' = n
  /\ loadingEventPhotos' = FALSE
  /\ effectPending' = TRUE
  /\ UNCHANGED <<file, uploading, matchLoading, matchMessage, matches, threshold,
                 progress, abortRef, autoRanRef, modelsReadyRef, photoKind,
                 pc, photos, thr, start, i, scoredAll, chunk, ec, sim, ad, rs, moreVars>>
  /\ Forget

\* The auto-match effect (lines 334-362), up to the await of the selfie lookup.
AutoMatchEffect ==
  /\ effectPending
  /\ effectPending' = FALSE
  /\ IF ~loadingEventPhotos /\ eventPhotos # 0 /\ ~autoRanRef
     THEN /\ autoRanRef' = TRUE
          /\ matchMessage' = "checkingSelfie"
          /\ pc' = [pc EXCEPT !["auto"] = "lookup"]
          /\ photos' = [photos EXCEPT !["auto"] = eventPhotos]
          /\ thr' = [thr EXCEPT !["auto"] = threshold]
     ELSE UNCHANGED <<autoRanRef, matchMessage, pc, photos, thr>>
  /\ UNCHANGED <<eventPhotos, loadingEventPhotos, file, uploading, matchLoading,
                 matches, threshold, progress, abortRef, modelsReadyRef, photoKind,
                 start, i, scoredAll, chunk, ec, sim, ad, rs, moreVars>>
  /\ Forget

\* loadSelfieUrlByUid settles: no selfie, a selfie url, or an exception.
AutoLookupSettled ==
  /\ pc["auto"] = "lookup"
  /\ \E r \in {"none", "url", "error"} :
       IF r = "url"
       THEN Commit("auto", runMatching(Fresh(Frame("auto")), photos["auto"]))
       ELSE Commit("auto", [Frame("auto") EXCEPT
                              !.pc = "idle", !.photos = 0, !.thr = defaultThreshold,
                              !.msg = IF r = "none" THEN "uploadPrompt" ELSE "autoFailed"])
  /\ UNCHANGED <<eventPhotos, loadingEventPhotos, effectPending, file, threshold,
                 autoRanRef, photoKind, ec, sim, ad, rs, moreVars>>

\* The file input (disabled while uploading or matchLoading).
SelectFile ==
  /\ ~effectPending
  /\ ~(uploading \/ matchLoading)
  /\ file' = ~file
  /\ UNCHANGED <<eventPhotos, loadingEventPhotos, effectPending, uploading,
                 matchLoading, matchMessage, matches, threshold, progress,
                 abortRef, autoRanRef, modelsReadyRef, photoKind,
                 pc, photos, thr, start, i, scoredAll, chunk, ec, sim, ad, rs, moreVars>>
  /\ Forget

\* The start button (lines 487-490) and handleUploadSelfie up to the await of
\* uploadBytes.  The handler, and the runMatching it will call, close over
\* eventPhotos and threshold of the render in which the button was clicked.
HandleUploadSelfie ==
  /\ ~effectPending
  /\ file /\ ~uploading /\ ~matchLoading
  /\ uploading' = TRUE
  /\ matches' = <<>>
  /\ matchMessage' = ""
  /\ pc' = [pc EXCEPT !["manual"] = "upload"]
  /\ photos' = [photos EXCEPT !["manual"] = eventPhotos]
  /\ thr' = [thr EXCEPT !["manual"] = threshold]
  /\ UNCHANGED <<eventPhotos, loadingEventPhotos, effectPending, file, matchLoading,
                 threshold, progress, abortRef, autoRanRef, modelsReadyRef, photoKind,
                 start, i, scoredAll, chunk, ec, sim, ad, rs, moreVars>>
  /\ Forget

\* uploadBytes / getDownloadURL settle: runMatching starts, or the catch and
\* finally blocks of handleUploadSelfie run.
UploadSettled ==
  /\ pc["manual"] = "upload"
  /\ \E ok \in BOOLEAN :
       IF ok
       THEN Commit("manual", runMatching(Fresh(Frame("manual")), photos["manual"]))
       ELSE Commit("manual", [Frame("manual") EXCEPT !.pc = "idle", !.photos = 0, !.thr = defaultThreshold,
                                                      !.msg = "uploadFailed"])
  /\ UNCHANGED <<eventPhotos, loadingEventPhotos, effectPending, file, threshold,
                 autoRanRef, photoKind, ec, sim, ad, rs, moreVars>>

\* ensureModels settles (lines 142-150, 217-220).
ModelsSettled(s) ==
  /\ pc[s] = "models"
  /\ \E ok \in BOOLEAN :
       LET f == Frame(s)
       IN IF ok
          THEN Commit(s, [setMatchMessage([f EXCEPT !.models = TRUE], "analyzingSelfie")
                            EXCEPT !.pc = "selfie"])
          ELSE Commit(s, failed(f))
  /\ UNCHANGED <<eventPhotos, loadingEventPhotos, effectPending, file, threshold,
                 autoRanRef, photoKind, ec, sim, ad, rs, moreVars>>

\* The selfie's fetch and detection settle (lines 221-236); with a descriptor
\* the batch loop starts in the same run.
SelfieSettled(s) ==
  /\ pc[s] = "selfie"
  /\ \E r \in {"ok", "noFace", "error"} :
       LET f == Frame(s)
       IN CASE r = "ok" -> Commit(s, batchLoop(f, poolTotal(photos[s]), thr[s]))
            [] r = "noFace" -> Commit(s, finish(setMatchMessage(f, "selfieNoFace"), "failed"))
            [] r = "error" -> Commit(s, failed(f))
  /\ UNCHANGED <<eventPhotos, loadingEventPhotos, effectPending, file, threshold,
                 autoRanRef, photoKind, ec, sim, ad, rs, moreVars>>

\* One scoreOne worker settles.  The last one of the chunk resolves
\* Promise.all, and runMatching runs on to its next await or to its return;
\* a rejection would resume it in its catch block at once.
WorkerSettled(s) ==
  /\ pc[s] = "scan"
  /\ \E w \in DOMAIN chunk[s] :
       /\ chunk[s][w].st = "inflight"
       /\ LET p == chunk[s][w].idx
          IN \E k \in (IF photoKind[p] = Unknown THEN Kinds ELSE {photoKind[p]}) :
               /\ photoKind' = [photoKind EXCEPT ![p] = k]
               /\ \E o \in Outcomes(k) :
                    LET res == scoreOne(p, o)
                        f == Frame(s)
                    IN IF res = Throw THEN Commit(s, failed(f))
                       ELSE IF ~allSettled(chunk[s], w)
                       THEN Commit(s, workerDone(f, w, res))
                       ELSE Commit(s, afterChunk(f, chunkResults(chunk[s], w, res),
                                                 poolTotal(photos[s]), thr[s]))
  /\ UNCHANGED <<eventPhotos, loadingEventPhotos, effectPending, file, threshold,
                 autoRanRef, ec, sim, ad, rs, moreVars>>

\* The abort button, rendered while matchLoading (lines 195-199, 526-564).
AbortScan ==
  /\ ~effectPending
  /\ matchLoading
  /\ abortRef' = TRUE
  /\ matchMessage' = "aborted"
  /\ matchLoading' = FALSE
  /\ fetched' = [t \in Slots |-> IF pc[t] \in Running THEN fetched[t] ELSE <<>>]
  /\ pub' = [t \in Slots |-> IF pc[t] \in Running THEN pub[t] ELSE NoPub(0)]
  /\ term' = [t \in Slots |-> IF pc[t] \in Running THEN term[t] ELSE "none"]
  /\ cancelled' = [t \in Slots |-> (pc[t] \in Running /\ cancelled[t]) \/ pc[t] = "scan"]
  /\ UNCHANGED <<eventPhotos, loadingEventPhotos, effectPending, file, uploading,
                 matches, threshold, progress, autoRanRef, modelsReadyRef, photoKind,
                 pc, photos, thr, start, i, scoredAll, chunk, ec, sim, ad, rs, moreVars>>
  /\ Remember

Next ==
  \/ EventPhotosLoaded
  \/ AutoMatchEffect
  \/ AutoLookupSettled
  \/ SelectFile
  \/ HandleUploadSelfie
  \/ UploadSettled
  \/ \E s \in Slots : ModelsSettled(s)
  \/ \E s \in Slots : SelfieSettled(s)
  \/ \E s \in Slots : WorkerSettled(s)
  \/ AbortScan

Spec == Init /\ [][Next]_vars


\* ------------------------------------------------------------------------
\* FindClient, embedding variant (lines 888-1522)
\* ------------------------------------------------------------------------

\* Math.sqrt in fixed point: floor(100 * sqrt(n))
Sqrt(n) == CHOOSE r \in 0..(100 * (n + 1)) : r * r <= 10000 * n /\ (r + 1) * (r + 1) > 10000 * n

RECURSIVE Dot(_, _)
Dot(a, b) == IF a = <<>> THEN 0 ELSE Head(a) * Head(b) + Dot(Tail(a), Tail(b))

\* cosineSimilarity of lines 901-911, in hundredths
cosineSimilarity(a, b) ==
  IF Len(a) = 0 \/ Len(b) = 0 \/ Len(a) # Len(b) THEN 0
  ELSE LET denom == Sqrt(Dot(a, a)) * Sqrt(Dot(b, b))
           dot == Dot(a, b)
       IN IF denom = 0 THEN 0
          ELSE IF dot >= 0 THEN (dot * 1000000) \div denom
          ELSE 0 - ((0 - dot) * 1000000) \div denom

\* What a photo document of the event can hold in its embedding field.
NoEmbedding == [array |-> FALSE, v |-> <<>>]
Embeddings == {<<>>, <<1>>, <<0, 0>>, <<1, 0>>, <<0, 1>>, <<1, 1>>, <<-1, 0>>}
RawDocs == {NoEmbedding} \cup {[array |-> TRUE, v |-> e] : e \in Embeddings}
\* What embedFace can resolve with.
Queries == {<<1, 0>>, <<1, 1>>}

RECURSIVE SeqsUpTo(_, _)
SeqsUpTo(S, n) ==
  IF n = 0 THEN {<<>>}
  ELSE LET shorter == SeqsUpTo(S, n - 1)
       IN shorter \cup {Append(t, x) : t \in {u \in shorter : Len(u) = n - 1}, x \in S}

\* snap.docs.map(...).filter(Array.isArray(embedding) && ...), lines 1010-1020
RECURSIVE docsOf(_, _)
docsOf(raw, k) ==
  IF raw = <<>> THEN <<>>
  ELSE (IF Head(raw).array THEN <<[id |-> k, embedding |-> Head(raw).v]>> ELSE <<>>)
       \o docsOf(Tail(raw), k + 1)

\* eventPhotos.map(score).sort(desc), lines 1051-1058
scoredOf(q, docs) ==
  sortByScoreDesc([k \in DOMAIN docs |->
                     [id |-> docs[k].id, score |-> cosineSimilarity(q, docs[k].embedding)]])

\* lines 1060-1061
filteredOf(scored, t) == Take(atLeast(scored, t), EMB_KEEP)

topOf(scored, t) ==
  LET filtered == filteredOf(scored, t)
  IN Take(IF Len(filtered) # 0 THEN filtered ELSE Take(scored, EMB_KEEP), SHOW_TOP)

\* The embedding variant is mounted; its load effect is waiting for Firestore.
InitEmb ==
  /\ InitFc
  /\ ec = [ecIdle EXCEPT !.pc = "idle", !.loadingEventPhotos = TRUE]
  /\ RestIdle

\* the finally block of handleUploadSelfie
embReturn(e, msg, t) ==
  [e EXCEPT !.pc = "idle", !.uploading = FALSE, !.matchLoading = FALSE,
            !.matchMessage = msg, !.term = t, !.captured = <<>>]

\* What is observed of a session is dropped by the component's next step.
embForget(e) ==
  IF e.term = "none" THEN e
  ELSE [e EXCEPT !.term = "none", !.q = <<>>, !.pool = <<>>, !.scored = <<>>,
                 !.published = FALSE]

\* getDocs settles (lines 1004-1030); the render that follows runs the
\* auto-check effect (lines 1078-1106) up to its await.
EmbPhotosLoaded ==
  /\ ec.loadingEventPhotos
  /\ \E raw \in SeqsUpTo(RawDocs, MaxEmbPhotos) :
       LET docs == docsOf(raw, 1)
           e == [embForget(ec) EXCEPT !.loadingEventPhotos = FALSE, !.eventPhotos = docs]
       IN ec' = IF Len(docs) # 0 /\ ~e.autoRanRef
                THEN [e EXCEPT !.autoRanRef = TRUE, !.lookup = TRUE,
                               !.matchMessage = "checkingSelfie"]
                ELSE e
  /\ UNCHANGED <<fcVars, sim, ad, rs, moreVars>>

\* loadSelfieUrlByUid settles: the effect only sets a message.
EmbLookupSettled ==
  /\ ec.lookup
  /\ \E r \in {"none", "url", "error"} :
       ec' = [embForget(ec) EXCEPT !.lookup = FALSE,
                !.matchMessage = CASE r = "none" -> "uploadPrompt"
                                   [] r = "url" -> "pressStart"
                                   [] r = "error" -> "autoFailed"]
  /\ UNCHANGED <<fcVars, sim, ad, rs, moreVars>>

\* The file input (line 1217)
EmbSelectFile ==
  /\ ec.pc # "off"
  /\ ~(ec.uploading \/ ec.matchLoading)
  /\ ec' = [embForget(ec) EXCEPT !.file = ~@]
  /\ UNCHANGED <<fcVars, sim, ad, rs, moreVars>>

\* The start button (line 1228) and handleUploadSelfie up to its first await
EmbHandleUploadSelfie ==
  /\ ec.pc # "off"
  /\ ec.file /\ ~ec.uploading /\ ~ec.matchLoading
  /\ ec' = [embForget(ec) EXCEPT !.uploading = TRUE, !.matches = <<>>, !.matchMessage = "",
                                 !.pc = "upload", !.captured = ec.eventPhotos]
  /\ UNCHANGED <<fcVars, sim, ad, rs, moreVars>>

\* uploadBytes / getDownloadURL settle; runMatching (lines 1035-1047) runs up
\* to the await of embedFace.
EmbUploadSettled ==
  /\ ec.pc = "upload"
  /\ \E ok \in BOOLEAN :
       ec' = IF ~ok THEN embReturn(ec, "uploadFailed", "none")
             ELSE IF Len(ec.captured) = 0 THEN embReturn(ec, "noPhotos", "nophotos")
             ELSE [ec EXCEPT !.pc = "embed", !.matchLoading = TRUE, !.matches = <<>>,
                             !.matchMessage = "embedding"]
  /\ UNCHANGED <<fcVars, sim, ad, rs, moreVars>>

\* embedFace settles (src/lib/faceServer.ts); lines 1049-1074 run to the end.
EmbedSettled ==
  /\ ec.pc = "embed"
  /\ \/ ec' = embReturn(ec, "failed", "failed")
     \/ \E q \in Queries :
          LET scored == scoredOf(q, ec.captured)
              top == topOf(scored, embThreshold)
              e == [ec EXCEPT !.q = q, !.pool = ec.captured, !.scored = scored,
                             !.matches = top, !.published = TRUE]
          IN ec' = embReturn(e, IF Len(filteredOf(scored, embThreshold)) # 0
                                THEN "found" ELSE "fallback", "completed")
  /\ UNCHANGED <<fcVars, sim, ad, rs, moreVars>>

NextEmb ==
  \/ EmbPhotosLoaded
  \/ EmbLookupSettled
  \/ EmbSelectFile
  \/ EmbHandleUploadSelfie
  \/ EmbUploadSettled
  \/ EmbedSettled

SpecEmb == InitEmb /\ [][NextEmb]_vars


\* ------------------------------------------------------------------------
\* The similarity functions the matchers call:
\*   src/lib/similarity.ts, find-client.tsx lines 14-24 (face-api variant)
\*   and find-client.tsx lines 901-911 (embedding variant)
\* ------------------------------------------------------------------------

\* JavaScript numbers: finite ones, NaN and the two infinities.
Fin(n) == [k |-> "fin", v |-> n]
NaN == [k |-> "nan", v |-> 0]
PosInf == [k |-> "inf", v |-> 1]
NegInf == [k |-> "inf", v |-> -1]

isFinite(x) == x.k = "fin"

Sign(n) == IF n > 0 THEN 1 ELSE IF n < 0 THEN -1 ELSE 0

\* x * y
jsMul(x, y) ==
  IF x.k = "nan" \/ y.k = "nan" THEN NaN
  ELSE IF x.k = "fin" /\ y.k = "fin" THEN Fin(x.v * y.v)
  ELSE IF Sign(x.v) * Sign(y.v) = 0 THEN NaN
  ELSE [k |-> "inf", v |-> Sign(x.v) * Sign(y.v)]

\* x + y
jsAdd(x, y) ==
  IF x.k = "nan" \/ y.k = "nan" THEN NaN
  ELSE IF x.k = "fin" /\ y.k = "fin" THEN Fin(x.v + y.v)
  ELSE IF x.k = "inf" /\ y.k = "inf" THEN (IF x.v = y.v THEN x ELSE NaN)
  ELSE IF x.k = "inf" THEN x ELSE y

\* the accumulation loop over the first n elements; an index past the end of
\* an array reads undefined, which multiplies to NaN
elemAt(a, j) == IF j \in DOMAIN a THEN a[j] ELSE NaN

RECURSIVE jsDot(_, _, _)
jsDot(a, b, n) ==
  IF n = 0 THEN Fin(0)
  ELSE jsAdd(jsDot(a, b, n - 1), jsMul(elemAt(a, n), elemAt(b, n)))

\* Math.sqrt(na) * Math.sqrt(nb) of two sums of squares, of which at least
\* one is not finite: NaN or Infinity (a finite factor kept by its sign)
jsDenom(na, nb) ==
  jsMul(IF na.k = "fin" THEN Fin(Sign(na.v)) ELSE na,
        IF nb.k = "fin" THEN Fin(Sign(nb.v)) ELSE nb)

\* dot / denom where dot or denom is not finite
jsDiv(dot, denom) ==
  IF dot.k = "nan" \/ denom.k = "nan" THEN NaN
  ELSE IF dot.k = "inf" /\ denom.k = "inf" THEN NaN
  ELSE IF denom.k = "inf" THEN Fin(0)
  ELSE IF Sign(denom.v) = 0 THEN (IF Sign(dot.v) = 0 THEN NaN ELSE dot)
  ELSE [k |-> "inf", v |-> Sign(dot.v) * Sign(denom.v)]

ints(a) == [j \in DOMAIN a |-> a[j].v]

allFinite(a) == \A j \in DOMAIN a : isFinite(a[j])

\* An argument: an array of numbers, or a value that is no array and has no
\* length (null, undefined).
NotArray == [array |-> FALSE, v |-> <<>>]
Arr(v) == [array |-> TRUE, v |-> v]

Threw == [k |-> "throw", v |-> 0]

\* src/lib/similarity.ts lines 2-24, in hundredths
libCosineSimilarity(aRaw, bRaw) ==
  IF ~aRaw.array \/ ~bRaw.array THEN Fin(0)
  ELSE LET a == aRaw.v
           b == bRaw.v
       IN IF Len(a) = 0 \/ Len(b) = 0 THEN Fin(0)
          ELSE IF Len(a) # Len(b) THEN Fin(0)
          ELSE IF ~allFinite(a) \/ ~allFinite(b) THEN Fin(0)
          ELSE Fin(cosineSimilarity(ints(a), ints(b)))

\* find-client.tsx lines 14-24 (face-api variant), in hundredths:
\* dot / (Math.sqrt(na) * Math.sqrt(nb) + 1e-10) over the length of a
faceCosineSimilarity(aRaw, bRaw) ==
  IF ~aRaw.array THEN Threw
  ELSE IF Len(aRaw.v) > 0 /\ ~bRaw.array THEN Threw
  ELSE LET a == aRaw.v
           n == Len(a)
           b == bRaw.v
           dot == jsDot(a, b, n)
           na == jsDot(a, a, n)
           nb == jsDot(b, b, n)
       IN IF isFinite(dot) /\ isFinite(na) /\ isFinite(nb)
          THEN Fin(cosineSimilarity(ints(a), ints(SubSeq(b, 1, n))))
          ELSE jsDiv(dot, LET d == jsDenom(na, nb)
                          IN IF d.k = "fin" /\ d.v = 0 THEN Fin(1) ELSE d)

\* find-client.tsx lines 901-911 (embedding variant) on any arguments; on
\* arrays of finite numbers it is cosineSimilarity above
embCosineSimilarity(aRaw, bRaw) ==
  LET a == aRaw.v
      b == bRaw.v
  IN IF ~aRaw.array \/ ~bRaw.array THEN Fin(0)
     ELSE IF Len(a) = 0 \/ Len(b) = 0 \/ Len(a) # Len(b) THEN Fin(0)
     ELSE LET dot == jsDot(a, b, Len(a))
              na == jsDot(a, a, Len(a))
              nb == jsDot(b, b, Len(a))
          IN IF isFinite(dot) /\ isFinite(na) /\ isFinite(nb)
             THEN Fin(cosineSimilarity(ints(a), ints(b)))
             ELSE LET denom == jsDenom(na, nb)
                  IN IF denom.k = "nan" \/ (denom.k = "fin" /\ denom.v = 0) THEN Fin(0)
                     ELSE jsDiv(dot, denom)

Elements == {Fin(0), Fin(1), Fin(-1), NaN, PosInf}
Arguments == {NotArray} \cup {Arr(v) : v \in SeqsUpTo(Elements, MaxDim)}

\* Two arguments are given; no function has been called.
InitSim ==
  /\ InitFc
  /\ ec = ecIdle /\ ad = adIdle /\ rs = rsIdle /\ MoreIdle
  /\ sim \in {[pc |-> "args", a |-> a, b |-> b, fn |-> "none", out |-> Fin(0)] :
                a \in Arguments, b \in Arguments}

SimReturn(fn, out) ==
  /\ sim.pc = "args"
  /\ sim' = [sim EXCEPT !.pc = "returned", !.fn = fn, !.out = out]
  /\ UNCHANGED <<fcVars, ec, ad, rs, moreVars>>

CallLibSimilarity == SimReturn("lib", libCosineSimilarity(sim.a, sim.b))

CallFaceSimilarity == SimReturn("face", faceCosineSimilarity(sim.a, sim.b))

CallEmbSimilarity == SimReturn("emb", embCosineSimilarity(sim.a, sim.b))

NextSim ==
  \/ CallLibSimilarity
  \/ CallFaceSimilarity
  \/ CallEmbSimilarity

SpecSim == InitSim /\ [][NextSim]_vars


\* ------------------------------------------------------------------------
\* The embedding adapters: src/app/api/embed/route.ts (the route that calls
\* the face server), embedFace of src/unnamed/part_001 (its client) and
\* embedFace of src/lib/faceServer.ts
\* ------------------------------------------------------------------------

\* The embedding field of a face: absent, or an array of numbers.
FaceEmbeddings == {NotArray} \cup {Arr(v) : v \in {<<>>, <<Fin(1)>>, <<Fin(2)>>, <<NaN>>}}
\* The faces field of a response body: absent, or a list of faces.
FacesFields == {NotArray} \cup {Arr(v) : v \in SeqsUpTo(FaceEmbeddings, MaxFaces)}

\* An HTTP exchange: net (the fetch resolved), ok (status 2xx), json (the
\* body parses), okField (the body's ok field), faces (the body's faces).
Responses ==
  [net : BOOLEAN, ok : BOOLEAN, json : BOOLEAN, okField : BOOLEAN, faces : FacesFields]

nonEmptyArray(e) == e.array /\ Len(e.v) > 0

\* faces.find((f) => Array.isArray(f.embedding) && f.embedding.length > 0)
RECURSIVE find(_)
find(faces) ==
  IF faces = <<>> THEN NotArray
  ELSE IF nonEmptyArray(Head(faces)) THEN Head(faces)
  ELSE find(Tail(faces))

\* What an adapter gives its caller.
Result(k, msg, e) == [k |-> k, msg |-> msg, embedding |-> e]

\* POST of route.ts, lines 34-65: the response it sends for the face
\* server's response r
POST(r) ==
  IF ~r.net THEN [net |-> TRUE, ok |-> FALSE, json |-> TRUE, okField |-> FALSE,
                  embedding |-> NotArray, faces |-> NotArray]
  ELSE IF ~r.json \/ ~r.ok
  THEN [net |-> TRUE, ok |-> FALSE, json |-> TRUE, okField |-> FALSE,
        embedding |-> NotArray, faces |-> NotArray]
  ELSE LET faces == IF r.faces.array THEN r.faces.v ELSE <<>>
           best == find(faces)
       IN [net |-> TRUE, ok |-> TRUE, json |-> TRUE, okField |-> TRUE,
           embedding |-> best, faces |-> Arr(faces)]

\* emb.map((v) => Number(v)).filter((v) => Number.isFinite(v))
finiteOnly(v) == SelectSeq(v, isFinite)

\* embedFace of src/unnamed/part_001, lines 45-71, on the response of
\* /api/embed
clientEmbedFace(res) ==
  IF ~res.net THEN Result("UNKNOWN", "", <<>>)
  ELSE IF ~res.ok THEN Result("SERVER", "", <<>>)
  ELSE IF ~res.json THEN Result("UNKNOWN", "", <<>>)
  ELSE IF ~res.okField THEN Result("SERVER", "", <<>>)
  ELSE IF ~nonEmptyArray(res.embedding) THEN Result("NO_FACE", "", <<>>)
  ELSE LET emb == finiteOnly(res.embedding.v)
       IN IF Len(emb) = 0 THEN Result("NO_FACE", "", <<>>)
          ELSE Result("ok", "", emb)

\* embedFace of src/lib/faceServer.ts on the response of /api/embed, whose
\* faces it reads from json.data.faces
libEmbedFace(res) ==
  IF ~res.net THEN Result("throw", "fetch", <<>>)
  ELSE IF ~res.ok \/ ~res.json \/ ~res.okField THEN Result("throw", "detail", <<>>)
  ELSE LET faces == res.faces
           emb == IF faces.array /\ Len(faces.v) > 0 THEN faces.v[1] ELSE NotArray
       IN IF ~emb.array
          THEN IF faces.array /\ Len(faces.v) = 0 THEN Result("throw", "noFace", <<>>)
               ELSE Result("throw", "noEmbedding", <<>>)
          ELSE Result("ok", "", emb.v)

\* A response has arrived; no adapter has handled it.
InitAdapter ==
  /\ InitFc
  /\ ec = ecIdle /\ sim = simIdle /\ rs = rsIdle /\ MoreIdle
  /\ ad \in {[pc |-> "response", r |-> r, fn |-> "none", out |-> Result("none", "", <<>>)] :
               r \in Responses}

AdapterReturn(fn, out) ==
  /\ ad.pc = "response"
  /\ ad' = [ad EXCEPT !.pc = "returned", !.fn = fn, !.out = out]
  /\ UNCHANGED <<fcVars, ec, sim, rs, moreVars>>

\* The face server answers r; the route answers the client's embedFace.
CallRouteAndClient == AdapterReturn("client", clientEmbedFace(POST(ad.r)))

\* /api/embed answers r to embedFace of lib/faceServer.ts.
CallLibEmbedFace == AdapterReturn("lib", libEmbedFace(ad.r))

NextAdapter ==
  \/ CallRouteAndClient
  \/ CallLibEmbedFace

SpecAdapter == InitAdapter /\ [][NextAdapter]_vars


\* ------------------------------------------------------------------------
\* The embed endpoint as a whole: POST of src/app/api/embed/route.ts, lines
\* 13-66, from the request to the response
\* ------------------------------------------------------------------------

\* A request: base (FACE_SERVER_URL is configured), ct (its content type),
\* form (what form.get("file") gives, or formData() throws).
Requests ==
  [base : BOOLEAN, ct : {"multipart", "json", "other"},
   form : {"file", "string", "missing", "throws"}]

\* What the face server would answer (its body has no ok field).
ProviderResponses == {r \in Responses : r.okField}

Response(status, ok, body) ==
  [status |-> status, ok |-> ok, embedding |-> body.embedding, faces |-> body.faces]

NoBody == [embedding |-> NotArray, faces |-> NotArray]

\* a route that hands the face server's failure on as its own
providerStatus_internal(r) == IF ~r.json THEN 502 ELSE IF ~r.ok THEN 500 ELSE 200

\* lines 37-46: the status for the face server's answer r
providerStatus(r) == IF ~r.json THEN 502 ELSE IF ~r.ok THEN 502 ELSE 200

\* The request has arrived at the route.
InitRoute ==
  /\ InitFc
  /\ ec = ecIdle /\ sim = simIdle /\ ad = adIdle /\ rs = rsIdle
  /\ mg = mgIdle /\ up = upIdle /\ iq = iqIdle /\ sv = svIdle /\ LastIdle
  /\ ep \in {[pc |-> "request", req |-> q, r |-> r, contacted |-> FALSE,
               out |-> Response(0, FALSE, NoBody)] :
               q \in Requests, r \in ProviderResponses}

RouteReturn(status, ok, body) ==
  ep' = [ep EXCEPT !.pc = "responded", !.out = Response(status, ok, body)]

\* lines 14-34: POST up to the fetch of the face server
RouteReceives ==
  /\ ep.pc = "request"
  /\ IF ~ep.req.base THEN RouteReturn(500, FALSE, NoBody)
     ELSE IF ep.req.ct # "multipart" THEN RouteReturn(400, FALSE, NoBody)
     ELSE IF ep.req.form = "throws" THEN RouteReturn(500, FALSE, NoBody)
     ELSE IF ep.req.form # "file" THEN RouteReturn(400, FALSE, NoBody)
     ELSE ep' = [ep EXCEPT !.pc = "fetching", !.contacted = TRUE]
  /\ UNCHANGED <<fcVars, ec, sim, ad, rs, mg, up, iq, sv, lastVars>>

\* lines 34-57, 62-64: the fetch settles and POST answers
ProviderAnswers ==
  /\ ep.pc = "fetching"
  /\ IF ~ep.r.net THEN RouteReturn(500, FALSE, NoBody)
     ELSE IF providerStatus(ep.r) # 200 THEN RouteReturn(providerStatus(ep.r), FALSE, NoBody)
     ELSE RouteReturn(200, POST(ep.r).okField, POST(ep.r))
  /\ UNCHANGED <<fcVars, ec, sim, ad, rs, mg, up, iq, sv, lastVars>>

NextRoute ==
  \/ RouteReceives
  \/ ProviderAnswers

SpecRoute == InitRoute /\ [][NextRoute]_vars


\* ------------------------------------------------------------------------
\* The bulk upload of the admin page: runWithConcurrency and runUpload of
\* src/app/admin/upload/UploadClient.tsx (lines 114-132, 296-387)
\* ------------------------------------------------------------------------

\* Numbers of the concurrency field, counted in halves: 3 is 1.5, which the
\* number input accepts and Number(e.target.value) hands on (line 596).
Half(n) == 2 * n
ConcurrencyValues == {Half(0), Half(1), 3, Half(2), Half(3)}

isInteger(h) == h % 2 = 0

\* Math.max(1, concurrency)
atLeastOne(h) == IF h < Half(1) THEN Half(1) ELSE h

\* Math.max(1, Math.min(16, uploadConcurrency)), line 318
clampConcurrency(h) ==
  atLeastOne(IF h > Half(maxUploadConcurrency) THEN Half(maxUploadConcurrency) ELSE h)

\* The awaits of the worker of runUpload, in order (lines 320-370)
Stages == <<"compress", "upload", "url", "embed", "addDoc">>

\* How an await can settle: embedFace under withTimeout resolves with a
\* non-empty array or with something else, rejects, or the timer wins.
StageOutcomes(stage) ==
  IF stage = "embed" THEN {"ok", "empty", "reject", "timeout"} ELSE {"ok", "reject"}

stageAfter(stage) ==
  Stages[(CHOOSE k \in DOMAIN Stages : Stages[k] = stage) + 1]

Parked == [cur |-> 0, stage |-> "out"]

\* The worker runs to its first await: compressImageToTarget for a file
\* above the target size, else uploadBytes (lines 325-342).
firstAwait(u, cur) == IF cur \in u.big THEN "compress" ELSE "upload"

\* const cur = nextIndex++; if (cur >= items.length) break; worker(...):
\* runner k takes the next item, or leaves its loop (lines 123-127)
takeNext(u, k) ==
  IF u.nextIndex >= u.files THEN [u EXCEPT !.nextIndex = @ + 1, !.runners[k] = Parked]
  ELSE [u EXCEPT !.nextIndex = @ + 1,
                 !.runners[k] = [cur |-> u.nextIndex + 1, stage |-> firstAwait(u, u.nextIndex + 1)],
                 !.calls[u.nextIndex + 1] = @ + 1]

\* Promise.all(runners) resolves when every runner has left its loop; then
\* runUpload returns through its finally block (lines 130, 382-386).
allReturned(u) ==
  IF \A k \in DOMAIN u.runners : u.runners[k] = Parked
  THEN [u EXCEPT !.pc = "ended", !.uploading = FALSE]
  ELSE u

\* the end of the worker's try block: setOkCount, or catch and setErrCount,
\* then setDone in the finally block (lines 371-378); the runner stores the
\* worker's result at the index of the item (line 126)
fileDone(u, k, ok) ==
  LET cur == u.runners[k].cur
  IN [u EXCEPT !.okCount = IF ok THEN @ + 1 ELSE @,
               !.errCount = IF ok THEN @ ELSE @ + 1,
               !.done = @ + 1,
               !.results[cur] = cur]

\* new Array(Math.max(1, concurrency)).fill(0).map(async () => ...): every
\* runner runs to its first await (lines 121-128).
RECURSIVE startRunners(_, _)
startRunners(u, k) ==
  IF k > Len(u.runners) THEN u ELSE startRunners(takeNext(u, k), k + 1)

\* runWithConcurrency(items, h, worker), lines 119-130: new Array throws a
\* RangeError for a length that is no integer.
runWithConcurrency(u, h) ==
  IF ~isInteger(atLeastOne(h))
  THEN [u EXCEPT !.pc = "ended", !.called = TRUE, !.threw = TRUE, !.uploading = FALSE]
  ELSE allReturned(startRunners([u EXCEPT !.pc = "running", !.called = TRUE,
                                          !.runners = [k \in 1..(atLeastOne(h) \div 2) |-> Parked]], 1))

\* The admin has picked the files and set the concurrency field; or
\* runWithConcurrency is called with a list and a concurrency of its own.
InitUpload ==
  /\ InitFc
  /\ ec = ecIdle /\ sim = simIdle /\ ad = adIdle /\ rs = rsIdle
  /\ mg = mgIdle /\ ep = epIdle /\ iq = iqIdle /\ sv = svIdle /\ LastIdle
  /\ up \in {[pc |-> "idle", caller |-> c, files |-> n, big |-> b, conc |-> h, runners |-> <<>>,
               nextIndex |-> 0, results |-> [k \in 1..n |-> 0], calls |-> [k \in 1..n |-> 0],
               done |-> 0, okCount |-> 0, errCount |-> 0, docs |-> {}, embedded |-> {},
               uploading |-> FALSE, called |-> FALSE, threw |-> FALSE] :
               c \in {"runUpload", "direct"}, n \in 0..MaxFiles, b \in {{}, {1}, 1..MaxFiles},
               h \in ConcurrencyValues}

\* runUpload up to the await of ensureEventDoc (lines 296-313)
RunUpload ==
  /\ up.pc = "idle" /\ up.caller = "runUpload"
  /\ up' = IF up.files = 0 THEN [up EXCEPT !.pc = "ended"]
           ELSE [up EXCEPT !.pc = "ensure", !.uploading = TRUE]
  /\ UNCHANGED <<fcVars, ec, sim, ad, rs, mg, ep, iq, sv, lastVars>>

\* ensureEventDoc settles; runWithConcurrency starts its runners (line 316).
EnsureSettled ==
  /\ up.pc = "ensure"
  /\ \E ok \in BOOLEAN :
       up' = IF ok THEN runWithConcurrency(up, clampConcurrency(up.conc))
             ELSE [up EXCEPT !.pc = "ended", !.threw = TRUE, !.uploading = FALSE]
  /\ UNCHANGED <<fcVars, ec, sim, ad, rs, mg, ep, iq, sv, lastVars>>

\* runWithConcurrency called with the list and the concurrency as they are
CallRunWithConcurrency ==
  /\ up.pc = "idle" /\ up.caller = "direct"
  /\ up' = runWithConcurrency(up, up.conc)
  /\ UNCHANGED <<fcVars, ec, sim, ad, rs, mg, ep, iq, sv, lastVars>>

\* An await of a worker settles: the worker goes on to its next await, or
\* its try block ends and the runner takes the next item.
StageSettled ==
  /\ up.pc = "running"
  /\ \E k \in DOMAIN up.runners :
       LET cur == up.runners[k].cur
           stage == up.runners[k].stage
       IN /\ stage # "out"
          /\ \E o \in StageOutcomes(stage) :
               up' = IF o # "ok"
                     THEN allReturned(takeNext(fileDone(up, k, FALSE), k))
                     ELSE IF stage = "addDoc"
                     THEN allReturned(takeNext(fileDone([up EXCEPT !.docs = @ \cup {cur}], k, TRUE), k))
                     ELSE [up EXCEPT !.runners[k].stage = stageAfter(stage),
                                     !.embedded = IF stage = "embed" THEN @ \cup {cur} ELSE @]
  /\ UNCHANGED <<fcVars, ec, sim, ad, rs, mg, ep, iq, sv, lastVars>>

NextUpload ==
  \/ RunUpload
  \/ EnsureSettled
  \/ CallRunWithConcurrency
  \/ StageSettled

SpecUpload == InitUpload /\ [][NextUpload]_vars


\* ------------------------------------------------------------------------
\* The ingest retry queue: clamp, ingestOne and runQueue of
\* src/app/find/page.tsx (lines 44-46, 130-205), with embedFace of
\* src/unnamed/part_001
\* ------------------------------------------------------------------------

\* clamp(n, a, b) = Math.max(a, Math.min(b, n)), on halves
clamp(n, a, b) ==
  LET m == IF b < n THEN b ELSE n
  IN IF a > m THEN a ELSE m

\* Array.from({ length }): the length is rounded down
toLength(h) == h \div 2

\* What embedFace can resolve with: it catches every exception.
EmbedResults ==
  {clientEmbedFace(POST(r)) : r \in Responses}
    \cup {clientEmbedFace([POST(r) EXCEPT !.net = FALSE]) : r \in Responses}

\* a status that does not tell NO_FACE from the other failures
statusFor_error(res) == IF res.k = "ok" THEN "embedded" ELSE "error"

\* lines 141-142, 154: the status ingestOne stores for the result res
statusFor(res) ==
  IF res.k = "ok" THEN "embedded"
  ELSE IF res.k = "NO_FACE" THEN "no_face" ELSE "error"

\* What is stored of a photo document.
Doc(status, emb, msg) == [status |-> status, embedding |-> emb, errorMessage |-> msg]

\* The documents a retry can start from: an earlier attempt failed, or the
\* photo has an embedding of an earlier attempt.
StoredDocs == {Doc("error", <<>>, "msg"), Doc("embedded", <<Fin(1)>>, "")}

Resting == [row |-> 0, at |-> "out", res |-> Result("none", "", <<>>)]

\* a worker that reads the head of the queue and leaves it there
shift_peek(w, k) ==
  IF Len(w.q) = 0 THEN [w EXCEPT !.workers[k] = Resting]
  ELSE [w EXCEPT !.workers[k] = [row |-> Head(w.q), at |-> "reset",
                                 res |-> Result("none", "", <<>>)],
                 !.taken[Head(w.q)] = @ + 1,
                 !.local[Head(w.q)] = "uploaded"]

\* while (q.length) { const r = q.shift(); ... }: worker k takes the next
\* row and runs to the first updateDoc of ingestOne, or ends (lines 174-181,
\* 132-136)
shift(w, k) ==
  IF Len(w.q) = 0 THEN [w EXCEPT !.workers[k] = Resting]
  ELSE [w EXCEPT !.workers[k] = [row |-> Head(w.q), at |-> "reset",
                                 res |-> Result("none", "", <<>>)],
                 !.q = Tail(@),
                 !.taken[Head(w.q)] = @ + 1,
                 !.local[Head(w.q)] = "uploaded"]

\* Array.from({ length }, (_, i) => worker(i + 1)): every worker runs to
\* its first await.
RECURSIVE startWorkers(_, _)
startWorkers(w, k) ==
  IF k > Len(w.workers) THEN w ELSE startWorkers(shift(w, k), k + 1)

\* await Promise.all(workers), line 202
queueDone(w) ==
  IF \A k \in DOMAIN w.workers : w.workers[k] = Resting
  THEN [w EXCEPT !.pc = "ended"] ELSE w

\* ingestOne has returned or thrown for the row of worker k (lines 182-196):
\* the counters, the local row, and the worker's next turn of its loop
rowDone(w, k, how) ==
  LET row == w.workers[k].row
  IN queueDone(shift([w EXCEPT !.ok = IF how = "embedded" THEN @ + 1 ELSE @,
                               !.fail = IF how = "embedded" THEN @ ELSE @ + 1,
                               !.ret[row] = IF how = "threw" THEN "threw" ELSE "returned",
                               !.local[row] = IF how = "threw" THEN "error" ELSE how], k))

\* The rows are loaded and the targets chosen; the concurrency field holds
\* a number.
InitIngest ==
  /\ InitFc
  /\ ec = ecIdle /\ sim = simIdle /\ ad = adIdle /\ rs = rsIdle
  /\ mg = mgIdle /\ ep = epIdle /\ up = upIdle /\ sv = svIdle /\ LastIdle
  /\ iq \in {[pc |-> "idle", targets |-> n, conc |-> h, q |-> <<>>, workers |-> <<>>,
               ok |-> 0, fail |-> 0,
               taken |-> [x \in 1..n |-> 0],
               ret |-> [x \in 1..n |-> "none"],
               got |-> [x \in 1..n |-> Result("none", "", <<>>)],
               local |-> [x \in 1..n |-> d.status],
               before |-> [x \in 1..n |-> d],
               doc |-> [x \in 1..n |-> d]] :
               n \in 1..MaxRows, h \in ConcurrencyValues, d \in StoredDocs}

\* runQueue(targets) up to its await (lines 168-202)
RunQueue ==
  /\ iq.pc = "idle"
  /\ iq' = queueDone(startWorkers(
             [iq EXCEPT !.pc = "running",
                        !.q = [x \in 1..iq.targets |-> x],
                        !.workers = [k \in 1..toLength(clamp(iq.conc, Half(1), Half(maxIngestConcurrency)))
                                       |-> Resting]], 1))
  /\ UNCHANGED <<fcVars, ec, sim, ad, rs, mg, ep, up, sv, lastVars>>

\* The first updateDoc of ingestOne settles (lines 132-139).
ResetSettled ==
  /\ iq.pc = "running"
  /\ \E k \in DOMAIN iq.workers, written \in BOOLEAN :
       LET row == iq.workers[k].row
       IN /\ iq.workers[k].at = "reset"
          /\ iq' = IF written
                   THEN [iq EXCEPT !.doc[row] = [@ EXCEPT !.status = "uploaded", !.errorMessage = ""],
                                   !.workers[k].at = "embed"]
                   ELSE rowDone(iq, k, "threw")
  /\ UNCHANGED <<fcVars, ec, sim, ad, rs, mg, ep, up, sv, lastVars>>

\* embedFace resolves (line 139); ingestOne starts its second updateDoc.
IngestEmbedSettled ==
  /\ iq.pc = "running"
  /\ \E k \in DOMAIN iq.workers, res \in EmbedResults :
       /\ iq.workers[k].at = "embed"
       /\ iq' = [iq EXCEPT !.workers[k].at = "write", !.workers[k].res = res,
                            !.got[iq.workers[k].row] = res]
  /\ UNCHANGED <<fcVars, ec, sim, ad, rs, mg, ep, up, sv, lastVars>>

\* The second updateDoc settles and ingestOne returns, or throws (lines
\* 141-164).
WriteSettled ==
  /\ iq.pc = "running"
  /\ \E k \in DOMAIN iq.workers, written \in BOOLEAN :
       LET row == iq.workers[k].row
           res == iq.workers[k].res
       IN /\ iq.workers[k].at = "write"
          /\ iq' = IF written
                   THEN rowDone([iq EXCEPT !.doc[row] =
                                   IF res.k = "ok" THEN Doc(statusFor(res), res.embedding, "")
                                   ELSE [@ EXCEPT !.status = statusFor(res), !.errorMessage = "msg"]],
                                k, statusFor(res))
                   ELSE rowDone(iq, k, "threw")
  /\ UNCHANGED <<fcVars, ec, sim, ad, rs, mg, ep, up, sv, lastVars>>

NextIngest ==
  \/ RunQueue
  \/ ResetSettled
  \/ IngestEmbedSettled
  \/ WriteSettled

SpecIngest == InitIngest /\ [][NextIngest]_vars


\* ------------------------------------------------------------------------
\* The save buttons of FindClient: saveMatch (find-client.tsx lines 392-415
\* and 1138-1161), the buttons (lines 694-727) and the reset of the save
\* state by runMatching (lines 211-213, 1044-1045).  A handler reads
\* savingKey and savedKeys of the render in which it was created; a click is
\* rendered before the next event, a promise's continuation is rendered
\* later.
\* ------------------------------------------------------------------------
SaveKeys == 1..MaxKeys

NoKey == 0

\* what a render shows and what its handlers close over
rendered(v) ==
  [v EXCEPT !.closure = [savingKey |-> v.savingKey, savedKeys |-> v.savedKeys,
                         matches |-> v.matches],
            !.dirty = FALSE]

\* setSavingKey(null); setSavedKeys(new Set()) of runMatching
resetSaves(v) == [v EXCEPT !.savingKey = NoKey, !.savedKeys = {}]

\* A session has completed and its matches are shown; nothing is saved.
InitSave ==
  /\ InitFc
  /\ ec = ecIdle /\ sim = simIdle /\ ad = adIdle /\ rs = rsIdle
  /\ mg = mgIdle /\ ep = epIdle /\ up = upIdle /\ iq = iqIdle /\ LastIdle
  /\ sv = rendered([pc |-> "idle", savingKey |-> NoKey, savedKeys |-> {},
                    matches |-> SaveKeys, inflight |-> <<>>,
                    written |-> [x \in SaveKeys |-> 0], sessions |-> 0,
                    last |-> "none", dirty |-> FALSE,
                    closure |-> [savingKey |-> NoKey, savedKeys |-> {}, matches |-> {}]])

\* A click on the save button of key, enabled in the last render: saveMatch
\* up to its await of addDoc.
ClickSave ==
  /\ sv.pc # "off"
  /\ \E key \in sv.closure.matches :
       /\ ~(key \in sv.closure.savedKeys \/ sv.closure.savingKey # NoKey)
       /\ sv' = rendered([sv EXCEPT !.savingKey = key, !.inflight = Append(@, key),
                                     !.last = "click"])
  /\ UNCHANGED <<fcVars, ec, sim, ad, rs, mg, ep, up, iq, lastVars>>

\* addDoc settles: the key is added to savedKeys, or the catch block runs;
\* the finally block clears savingKey.
SaveSettled ==
  /\ sv.pc # "off"
  /\ \E j \in DOMAIN sv.inflight, ok \in BOOLEAN :
       LET key == sv.inflight[j]
       IN sv' = [sv EXCEPT
                   !.inflight = SubSeq(@, 1, j - 1) \o SubSeq(@, j + 1, Len(@)),
                   !.written[key] = IF ok THEN @ + 1 ELSE @,
                   !.savedKeys = IF ok THEN @ \cup {key} ELSE @,
                   !.savingKey = NoKey,
                   !.last = IF ok THEN "saved" ELSE "failed",
                   !.dirty = TRUE]
  /\ UNCHANGED <<fcVars, ec, sim, ad, rs, mg, ep, up, iq, lastVars>>

\* React renders the state set by a promise's continuation.
Render ==
  /\ sv.pc # "off" /\ sv.dirty
  /\ sv' = rendered(sv)
  /\ UNCHANGED <<fcVars, ec, sim, ad, rs, mg, ep, up, iq, lastVars>>

\* The start button: handleUploadSelfie clears the matches and uploads.
StartMatch ==
  /\ sv.pc = "idle" /\ sv.sessions < MaxSessions
  /\ sv' = rendered([sv EXCEPT !.pc = "upload", !.matches = {}, !.sessions = @ + 1,
                                !.last = "start"])
  /\ UNCHANGED <<fcVars, ec, sim, ad, rs, mg, ep, up, iq, lastVars>>

\* The upload settles and runMatching starts: the save state is reset and
\* the documents written are counted anew.
MatchStarts ==
  /\ sv.pc = "upload"
  /\ sv' = [resetSaves(sv) EXCEPT !.pc = "matching", !.dirty = TRUE,
                                   !.written = [x \in SaveKeys |-> 0], !.last = "reset"]
  /\ UNCHANGED <<fcVars, ec, sim, ad, rs, mg, ep, up, iq, lastVars>>

\* runMatching publishes its matches and returns.
MatchPublishes ==
  /\ sv.pc = "matching"
  /\ sv' = [sv EXCEPT !.pc = "idle", !.matches = SaveKeys, !.dirty = TRUE, !.last = "publish"]
  /\ UNCHANGED <<fcVars, ec, sim, ad, rs, mg, ep, up, iq, lastVars>>

NextSave ==
  \/ ClickSave
  \/ SaveSettled
  \/ Render
  \/ StartMatch
  \/ MatchStarts
  \/ MatchPublishes

SpecSave == InitSave /\ [][NextSave]_vars


\* ------------------------------------------------------------------------
\* The auto-match effect of one mounted FindClient (find-client.tsx lines
\* 334-362; the embedding variant lines 1078-1107) and the state it depends
\* on: safeUid, loadingEventPhotos and eventPhotos.length
\* ------------------------------------------------------------------------
NoUid == 0
Uids == 1..MaxUids
Variants == {"faceapi", "embedding"}

\* The dependency array of the effect, as a render sees it.
depsOf(a) == <<a.safeUid, a.loadingEventPhotos, a.eventPhotos>>

\* the guards of the effect without the autoRanRef check
autoGuard_noRef(a) ==
  a.safeUid # NoUid /\ ~a.loadingEventPhotos /\ a.eventPhotos # 0

\* The four early returns of the effect (lines 335-338): TRUE when it goes on.
autoGuard(a) ==
  /\ a.safeUid # NoUid
  /\ ~a.loadingEventPhotos
  /\ a.eventPhotos # 0
  /\ ~a.autoRanRef

\* FindClient has mounted: safeUid is "", the photos are not loaded, and the
\* effects of the first render have not run.
InitAuto ==
  /\ InitFc
  /\ ec = ecIdle /\ sim = simIdle /\ ad = adIdle /\ rs = rsIdle
  /\ mg = mgIdle /\ ep = epIdle /\ up = upIdle /\ iq = iqIdle /\ sv = svIdle
  /\ px = Off /\ mo = Off /\ sf = Off /\ cp = Off
  /\ au \in {[pc |-> "idle", variant |-> v, safeUid |-> NoUid,
              loadingEventPhotos |-> TRUE, eventPhotos |-> 0, listing |-> FALSE,
              autoRanRef |-> FALSE, deps |-> <<>>, lookups |-> 0, runs |-> 0,
              changes |-> 0, seen |-> <<>>] : v \in Variants}

AutoIdle == UNCHANGED <<fcVars, ec, sim, ad, rs, mg, ep, up, iq, sv, px, mo, sf, cp>>

\* The uid effect (lines 130-140) after a change of the uid parameter or of
\* the event id: setSafeUid.
SetSafeUid ==
  /\ au.pc # "off"
  /\ au.changes < MaxChanges
  /\ \E u \in Uids : au' = [au EXCEPT !.safeUid = u, !.changes = @ + 1]
  /\ AutoIdle

\* loadEventPhotos up to its first await (lines 152-159).
LoadEventPhotos ==
  /\ au.pc # "off"
  /\ au.changes < MaxChanges
  /\ au' = [au EXCEPT !.loadingEventPhotos = TRUE, !.eventPhotos = 0,
                      !.listing = TRUE, !.changes = @ + 1]
  /\ AutoIdle

\* The listing settles: setEventPhotos with the urls, or with [] in the
\* catch block (lines 171, 174). A render may come before the finally block.
PhotosListed ==
  /\ au.pc # "off"
  /\ au.listing
  /\ \E n \in 0..MaxPhotos : au' = [au EXCEPT !.eventPhotos = n, !.listing = FALSE]
  /\ AutoIdle

\* The finally block of loadEventPhotos (line 177).
LoadFinally ==
  /\ au.pc # "off"
  /\ ~au.listing /\ au.loadingEventPhotos
  /\ au' = [au EXCEPT !.loadingEventPhotos = FALSE]
  /\ AutoIdle

\* The effect runs after a render whose dependencies changed, up to the await
\* of the selfie lookup.
AutoEffect ==
  /\ au.pc # "off"
  /\ au.deps # depsOf(au)
  /\ au' = IF autoGuard(au)
           THEN [au EXCEPT !.deps = depsOf(au), !.autoRanRef = TRUE, !.pc = "lookup",
                           !.lookups = @ + 1, !.seen = depsOf(au)]
           ELSE [au EXCEPT !.deps = depsOf(au)]
  /\ AutoIdle

\* loadSelfieUrlByUid settles: with a url the face-api variant calls
\* runMatching (line 352); the embedding variant only shows a message.
LookupSettled ==
  /\ au.pc = "lookup"
  /\ \E r \in {"none", "url", "error"} :
       au' = [au EXCEPT !.pc = "idle",
                        !.runs = IF r = "url" /\ au.variant = "faceapi" THEN @ + 1 ELSE @]
  /\ AutoIdle

NextAuto ==
  \/ SetSafeUid
  \/ LoadEventPhotos
  \/ PhotosListed
  \/ LoadFinally
  \/ AutoEffect
  \/ LookupSettled

SpecAuto == InitAuto /\ [][NextAuto]_vars


\* ------------------------------------------------------------------------
\* The image proxy: GET of src/app/api/img/route.tsx (lines 3-37), one
\* request from its arrival to its response
\* ------------------------------------------------------------------------
\* The u parameter: absent (searchParams.get gives null) or a string, kept
\* as its characters.
NoParam == [kind |-> "null"]
Str(chars) == [kind |-> "string", chars |-> chars]
HttpsPrefix == <<"h", "t", "t", "p", "s", ":", "/", "/">>
UParams ==
  {NoParam, Str(<<>>), Str(HttpsPrefix), Str(HttpsPrefix \o <<"a">>),
   Str(<<"h", "t", "t", "p", ":", "/", "/", "a">>),
   Str(<<"H", "T", "T", "P", "S", ":", "/", "/", "a">>),
   Str(<<"h", "t", "t", "p", "s", ":", "/">>),
   Str(<<"/", "h", "t", "t", "p", "s", ":", "/", "/">>)}

\* String.prototype.startsWith
startsWith(chars, prefix) ==
  Len(chars) >= Len(prefix) /\ SubSeq(chars, 1, Len(prefix)) = prefix

\* a check that accepts every non-empty value
isAllowedUrl_any(u) == TRUE

\* isAllowedUrl (lines 3-6)
isAllowedUrl(u) == startsWith(u.chars, HttpsPrefix)

\* What the upstream server answers: a status, a content-type header (NoHeader
\* when it sends none) and a body.
NoHeader == ""
DefaultType == "application/octet-stream"
UpstreamStatuses == {200, 204, 404, 500}
ContentTypes == {NoHeader, "image/jpeg", "image/png", "text/html"}
Bodies == {"bytesA", "bytesB"}
Upstreams ==
  [status : UpstreamStatuses, contentType : ContentTypes, body : Bodies]
NoUpstream == [status |-> 0, contentType |-> NoHeader, body |-> ""]

\* Response.ok
upstreamOk(r) == r.status \in 200..299

\* new Response(body, {status, headers}); the text responses carry no
\* Content-Type of their own.
ProxyResponse(status, contentType, body) ==
  [status |-> status, contentType |-> contentType, body |-> body]
NoResponse == ProxyResponse(0, NoHeader, "")

InitProxy ==
  /\ InitFc
  /\ ec = ecIdle /\ sim = simIdle /\ ad = adIdle /\ rs = rsIdle
  /\ mg = mgIdle /\ ep = epIdle /\ up = upIdle /\ iq = iqIdle /\ sv = svIdle
  /\ au = Off /\ mo = Off /\ sf = Off /\ cp = Off
  /\ px \in {[pc |-> "received", u |-> u, fetches |-> 0, upstream |-> NoUpstream,
              threw |-> FALSE, response |-> NoResponse] : u \in UParams}

ProxyIdle == UNCHANGED <<fcVars, ec, sim, ad, rs, mg, ep, up, iq, sv, au, mo, sf, cp>>

\* GET up to the await of fetch (lines 9-16): the two 400 responses, or the
\* upstream request is sent.
ProxyGet ==
  /\ px.pc = "received"
  /\ px' = IF px.u = NoParam \/ px.u.chars = <<>>
           THEN [px EXCEPT !.pc = "done", !.response = ProxyResponse(400, NoHeader, "Missing u")]
           ELSE IF ~isAllowedUrl(px.u)
           THEN [px EXCEPT !.pc = "done",
                           !.response = ProxyResponse(400, NoHeader, "URL not allowed")]
           ELSE [px EXCEPT !.pc = "fetching", !.fetches = @ + 1]
  /\ ProxyIdle

\* fetch settles (lines 16-23): it rejects, or the upstream answers and a
\* non-success status gives 502; otherwise the body is awaited.
UpstreamAnswers ==
  /\ px.pc = "fetching"
  /\ \/ px' = [px EXCEPT !.pc = "done", !.threw = TRUE,
                         !.response = ProxyResponse(500, NoHeader, "Proxy error")]
     \/ \E r \in Upstreams :
          px' = IF ~upstreamOk(r)
                THEN [px EXCEPT !.pc = "done", !.upstream = r,
                                !.response = ProxyResponse(502, NoHeader, "Upstream failed")]
                ELSE [px EXCEPT !.pc = "reading", !.upstream = r]
  /\ ProxyIdle

\* arrayBuffer settles (lines 23-35): the 200 response, or 500 when reading
\* the body fails.
BodyRead ==
  /\ px.pc = "reading"
  /\ \/ px' = [px EXCEPT !.pc = "done", !.threw = TRUE,
                         !.response = ProxyResponse(500, NoHeader, "Proxy error")]
     \/ px' = [px EXCEPT !.pc = "done",
                         !.response = ProxyResponse(200,
                                        IF px.upstream.contentType # NoHeader
                                        THEN px.upstream.contentType ELSE DefaultType,
                                        px.upstream.body)]
  /\ ProxyIdle

NextProxy ==
  \/ ProxyGet
  \/ UpstreamAnswers
  \/ BodyRead

SpecProxy == InitProxy /\ [][NextProxy]_vars


\* ------------------------------------------------------------------------
\* The moment selection of the admin event page: toggleMoment,
\* applyAutoMoments and saveMoments (src/app/admin/event/EventClient.tsx
\* lines 315-356) after the event document has been loaded (lines 198-212)
\* ------------------------------------------------------------------------
\* The most moments a selection may hold (lines 320, 328, 340).
momentLimit == 8

\* The photos of the loaded list, newest first, by id; the event document
\* may also name a photo that is not in the list (id MaxEventPhotos + 1).
PhotoIds == 1..MaxEventPhotos
photoList == [k \in PhotoIds |-> k]

\* a toggle that adds whatever the size
toggleMoment_unlimited(prev, p) ==
  IF p \in prev THEN prev \ {p} ELSE prev \union {p}

\* The updater of toggleMoment (lines 316-324).
toggleMoment(prev, p) ==
  IF p \in prev THEN prev \ {p}
  ELSE IF Cardinality(prev) >= momentLimit THEN prev
  ELSE prev \union {p}

\* photos.slice(0, 8).map(p => p.id) as a set (line 328)
applyAutoMoments(list) == {list[k] : k \in 1..Min(momentLimit, Len(list))}

\* photos.filter(p => momentIds.has(p.id)).slice(0, 8) (lines 338-341)
chosenOf(list, ids) ==
  Take(SelectSeq(list, LAMBDA p : p \in ids), momentLimit)

\* The page has mounted and the event document is being read.
InitMoments ==
  /\ InitFc
  /\ ec = ecIdle /\ sim = simIdle /\ ad = adIdle /\ rs = rsIdle
  /\ mg = mgIdle /\ ep = epIdle /\ up = upIdle /\ iq = iqIdle /\ sv = svIdle
  /\ au = Off /\ px = Off /\ sf = Off /\ cp = Off
  /\ mo = [pc |-> "loading", loaded |-> {}, momentIds |-> {}, prev |-> {},
           last |-> "none", arg |-> 0, saving |-> FALSE, inflight |-> <<>>,
           stored |-> <<>>, saves |-> 0, steps |-> 0]

MomentsIdle == UNCHANGED <<fcVars, ec, sim, ad, rs, mg, ep, up, iq, sv, au, px, sf, cp>>

\* The event document arrives (lines 198-212): its moments, however many,
\* become the selection.
MetaLoaded ==
  /\ mo.pc = "loading"
  /\ \E n \in 0..(MaxEventPhotos + 1) :
       mo' = [mo EXCEPT !.pc = "ready", !.loaded = 1..n, !.momentIds = 1..n]
  /\ MomentsIdle

\* A click on a photo of the list.
ToggleMoment ==
  /\ mo.pc = "ready"
  /\ mo.steps < MaxToggles
  /\ \E p \in PhotoIds :
       mo' = [mo EXCEPT !.momentIds = toggleMoment(@, p), !.prev = mo.momentIds,
                        !.last = "toggle", !.arg = p, !.steps = @ + 1]
  /\ MomentsIdle

\* The auto-select button (disabled while saving).
ApplyAutoMoments ==
  /\ mo.pc = "ready"
  /\ ~mo.saving
  /\ mo.steps < MaxToggles
  /\ mo' = [mo EXCEPT !.momentIds = applyAutoMoments(photoList), !.prev = mo.momentIds,
                      !.last = "auto", !.arg = 0, !.steps = @ + 1]
  /\ MomentsIdle

\* saveMoments up to the await of updateDoc (lines 333-342); the button is
\* disabled while saving.
SaveMoments ==
  /\ mo.pc = "ready"
  /\ ~mo.saving
  /\ mo.saves < MaxToggles
  /\ mo' = [mo EXCEPT !.saving = TRUE, !.inflight = chosenOf(photoList, mo.momentIds),
                      !.saves = @ + 1]
  /\ MomentsIdle

\* updateDoc settles (lines 342-355): the document holds the chosen moments,
\* or the write failed.
MomentsSaved ==
  /\ mo.pc = "ready"
  /\ mo.saving
  /\ \E ok \in BOOLEAN :
       mo' = [mo EXCEPT !.saving = FALSE, !.inflight = <<>>,
                        !.stored = IF ok THEN mo.inflight ELSE @,
                        !.last = IF ok THEN "saved" ELSE "saveFailed"]
  /\ MomentsIdle

NextMoments ==
  \/ MetaLoaded
  \/ ToggleMoment
  \/ ApplyAutoMoments
  \/ SaveMoments
  \/ MomentsSaved

SpecMoments == InitMoments /\ [][NextMoments]_vars


\* ------------------------------------------------------------------------
\* matchSelfieOnUpload (src/unnamed/part_001 lines 310-461): one invocation
\* for one finalized storage object. A path is kept as its segments, the
\* pieces between the slashes.
\* ------------------------------------------------------------------------
Paths ==
  {<<"events", "E1", "selfies", "k.jpg">>,
   <<"events", "E1", "selfies", "sub", "k.jpg">>,
   <<"events", "E1", "photos", "p.jpg">>,
   <<"events", "E1", "photos", "selfies", "k.jpg">>,
   <<"events", "E1", "thumbs", "selfies", "k.jpg">>,
   <<"events", "", "selfies", "k.jpg">>,
   <<"other", "E1", "selfies", "k.jpg">>,
   <<"selfies", "k.jpg">>,
   <<"">>}

\* filePath.startsWith("events/") && filePath.includes("/selfies/") (line 321):
\* the first segment is events and is followed by a slash; some segment with
\* a slash on both sides is selfies.
looksLikeSelfie(path) ==
  /\ Len(path) >= 2 /\ path[1] = "events"
  /\ \E k \in 2..(Len(path) - 1) : path[k] = "selfies"

\* parseEventId (lines 157-161): the regular expression
\* ^events\/([^/]+)\/(photos|selfies)\/ and its first group, "" without a match.
parseEventId(path) ==
  IF /\ Len(path) >= 4 /\ path[1] = "events" /\ path[2] # ""
     /\ path[3] \in {"photos", "selfies"}
  THEN path[2] ELSE ""

\* What a face match leads to: no ExternalImageId, no photos document, a
\* photos document without storage_path, or a match document.
MatchKinds == {"noKey", "noDoc", "noPath", "ok"}
FaceMatchLists == UNION {[1..n -> MatchKinds] : n \in 0..MaxFaceMatches}

\* selfieRef.set({status}, {merge: true}) and what the model remembers of it
setStatus(f, st) == [f EXCEPT !.status = st, !.log = Append(@, st)]

\* The loop over the matches has ended (lines 449-456).
finishMatches(f) ==
  [setStatus(f, "done") EXCEPT !.pc = "ended", !.match_count = f.created]

\* The function is invoked; the selfies document of the object, if there is
\* one, has the status the client gave it.
InitSelfie ==
  /\ InitFc
  /\ ec = ecIdle /\ sim = simIdle /\ ad = adIdle /\ rs = rsIdle
  /\ mg = mgIdle /\ ep = epIdle /\ up = upIdle /\ iq = iqIdle /\ sv = svIdle
  /\ au = Off /\ px = Off /\ mo = Off /\ cp = Off
  /\ sf \in {[pc |-> "invoked", path |-> p, eventId |-> "", existed |-> e,
              status |-> IF e THEN "uploaded" ELSE "none", log |-> <<>>,
              searched |-> FALSE, matches |-> <<>>, k |-> 0, created |-> 0,
              matchDocs |-> 0, match_count |-> -1] : p \in Paths, e \in BOOLEAN}

SelfieIdle == UNCHANGED <<fcVars, ec, sim, ad, rs, mg, ep, up, iq, sv, au, px, mo, cp>>

\* The handler up to the await of the download (lines 317-336): the early
\* returns for an empty name, another path and an unparsable event id.
SelfieInvoked ==
  /\ sf.pc = "invoked"
  /\ sf' = IF sf.path = <<"">> \/ ~looksLikeSelfie(sf.path) \/ parseEventId(sf.path) = ""
           THEN [sf EXCEPT !.pc = "ended"]
           ELSE [sf EXCEPT !.pc = "lookup", !.eventId = parseEventId(sf.path)]
  /\ SelfieIdle

\* The download, ensureCollection and the lookups of the selfies document
\* settle (lines 336-384): the document is created with, or set to, status
\* processing, and the face search is sent; or one of the calls rejects.
SelfieDocReady ==
  /\ sf.pc = "lookup"
  /\ \/ sf' = [sf EXCEPT !.pc = "ended"]
     \/ sf' = [setStatus(sf, "processing") EXCEPT !.pc = "search", !.searched = TRUE]
  /\ SelfieIdle

\* SearchFacesByImage settles (lines 387-410): it fails and the status
\* becomes error, or it answers with the face matches.
SearchSettled ==
  /\ sf.pc = "search"
  /\ \/ sf' = [setStatus(sf, "error") EXCEPT !.pc = "ended"]
     \/ \E ms \in FaceMatchLists :
          sf' = IF Len(ms) = 0 THEN finishMatches([sf EXCEPT !.matches = ms])
                ELSE [sf EXCEPT !.pc = "loop", !.matches = ms, !.k = 1]
  /\ SelfieIdle

\* One pass of the loop over the matches (lines 415-447), then the next
\* pass or the final status.
MatchHandled ==
  /\ sf.pc = "loop"
  /\ LET ok == sf.matches[sf.k] = "ok"
         f == [sf EXCEPT !.created = IF ok THEN @ + 1 ELSE @,
                         !.matchDocs = IF ok THEN @ + 1 ELSE @]
     IN sf' = IF sf.k < Len(sf.matches) THEN [f EXCEPT !.k = @ + 1]
              ELSE finishMatches(f)
  /\ SelfieIdle

NextSelfie ==
  \/ SelfieInvoked
  \/ SelfieDocReady
  \/ SearchSettled
  \/ MatchHandled

SpecSelfie == InitSelfie /\ [][NextSelfie]_vars


\* ------------------------------------------------------------------------
\* compressImageToTarget (src/app/admin/upload/UploadClient.tsx lines
\* 48-109): one call. Qualities are counted in hundredths (88 is 0.88);
\* sizes are small integers around targetBytes.
\* ------------------------------------------------------------------------
\* the quality step of the loop, 0.08 (line 97), and its 8 passes (line 96)
qualityStep == 8
loopPasses == 8

\* startQuality and minQuality: the values runUpload passes (lines 332-333)
\* and others with minQuality at or below startQuality.
QualityPairs == {<<88, 52>>, <<88, 24>>, <<88, 16>>, <<100, 0>>, <<60, 60>>}
Sizes == 1..(TargetSize + 2)

\* a step that does not stop at minQuality
nextQuality_unclamped(q, minQuality) == q - qualityStep

\* Math.max(opts.minQuality, q - 0.08) (line 97)
nextQuality(q, minQuality) ==
  IF q - qualityStep > minQuality THEN q - qualityStep ELSE minQuality

\* return of a blob: the file itself (attempt 0) or the encoding of an attempt
returnBlob(c, n) == [c EXCEPT !.pc = "returned", !.ret = n]

\* toBlobQ(q) is called: one more encode attempt at quality q.
toBlobQ(c, q) == [c EXCEPT !.pc = "encoding", !.q = q, !.qs = Append(@, q)]

InitCompress ==
  /\ InitFc
  /\ ec = ecIdle /\ sim = simIdle /\ ad = adIdle /\ rs = rsIdle
  /\ mg = mgIdle /\ ep = epIdle /\ up = upIdle /\ iq = iqIdle /\ sv = svIdle
  /\ au = Off /\ px = Off /\ mo = Off /\ sf = Off
  /\ cp \in {[pc |-> "called", fileSize |-> fs, startQuality |-> qp[1],
              minQuality |-> qp[2], q |-> 0, step |-> 0, qs |-> <<>>,
              sizes |-> <<>>, ret |-> -1] : fs \in Sizes, qp \in QualityPairs}

CompressIdle == UNCHANGED <<fcVars, ec, sim, ad, rs, mg, ep, up, iq, sv, au, px, mo, sf>>

\* The call up to the await of the image load (lines 53-62).
CompressCalled ==
  /\ cp.pc = "called"
  /\ cp' = IF cp.fileSize <= TargetSize THEN returnBlob(cp, 0)
           ELSE [cp EXCEPT !.pc = "loading"]
  /\ CompressIdle

\* The image loads and is drawn, and the first encoding is asked for (lines
\* 64-89); or the load fails or there is no 2d context.
ImageLoaded ==
  /\ cp.pc = "loading"
  /\ \/ cp' = [cp EXCEPT !.pc = "rejected"]
     \/ cp' = toBlobQ(cp, cp.startQuality)
  /\ CompressIdle

\* canvas.toBlob calls back (lines 89-105): with null the call rejects;
\* with a blob the first attempt returns it or enters the loop, and a pass
\* of the loop returns it, breaks, or goes on to the next pass.
BlobReady ==
  /\ cp.pc = "encoding"
  /\ \/ cp' = [cp EXCEPT !.pc = "rejected"]
     \/ \E b \in Sizes :
          LET c == [cp EXCEPT !.sizes = Append(@, b)]
              n == Len(c.sizes)
          IN cp' = IF b <= TargetSize THEN returnBlob(c, n)
                   ELSE IF n = 1
                   THEN toBlobQ(c, nextQuality(c.q, c.minQuality))
                   ELSE IF c.q <= c.minQuality THEN returnBlob(c, n)
                   ELSE IF c.step + 1 < loopPasses
                   THEN toBlobQ([c EXCEPT !.step = @ + 1], nextQuality(c.q, c.minQuality))
                   ELSE returnBlob(c, n)
  /\ CompressIdle

NextCompress ==
  \/ CompressCalled
  \/ ImageLoaded
  \/ BlobReady

SpecCompress == InitCompress /\ [][NextCompress]_vars


\* ------------------------------------------------------------------------
\* Descriptor resolutions and their timers: the embed step of runUpload
\* (src/app/admin/upload/UploadClient.tsx lines 137-147, 348-378) and the
\* photo fetch of scoreOne (find-client.tsx lines 26-51, 242-266), one item
\* after the other
\* ------------------------------------------------------------------------
Sites == {"upload", "candidate"}

\* The timer a resolution at a site starts: withTimeout arms one around
\* embedFace; urlToCanvasViaProxy calls fetch without one.
timerOf(site) == IF site = "upload" THEN "armed" ELSE "none"

\* The next item's resolution starts, or the run ends.
nextItem(r) ==
  IF r.item < r.items
  THEN [r EXCEPT !.item = @ + 1, !.clock = 0, !.timer = timerOf(r.site)]
  ELSE [r EXCEPT !.pc = "finished", !.clock = 0, !.timer = "none"]

\* The item's try block ends: ok counts it, an error is caught and counted
\* (runUpload lines 371-378; scoreOne returns the item or null).
itemDone(r, how) ==
  nextItem([r EXCEPT !.okCount = IF how = "ok" THEN @ + 1 ELSE @,
                     !.errCount = IF how = "ok" THEN @ ELSE @ + 1,
                     !.done = @ + 1, !.last = how])

\* The first item's resolution has started; ms is the timeout the caller
\* asks for.
InitResolve ==
  /\ InitFc
  /\ ec = ecIdle /\ sim = simIdle /\ ad = adIdle /\ MoreIdle
  /\ rs \in {[pc |-> "waiting", site |-> site, ms |-> ms, items |-> n, item |-> 1,
              clock |-> 0, timer |-> timerOf(site), okCount |-> 0, errCount |-> 0,
              done |-> 0, last |-> "none"] : site \in Sites, ms \in 1..MaxMs, n \in 1..MaxItems}

\* A unit of time passes without an answer; a timer that is due fires first.
Tick ==
  /\ rs.pc = "waiting"
  /\ rs.clock < MaxMs + 1
  /\ ~(rs.timer = "armed" /\ rs.clock >= rs.ms)
  /\ rs' = [rs EXCEPT !.clock = @ + 1]
  /\ UNCHANGED <<fcVars, ec, sim, ad, moreVars>>

\* The provider answers, or the call fails: the timer is cleared (line 146).
ResolveSettled ==
  /\ rs.pc = "waiting"
  /\ \E how \in {"ok", "error"} : rs' = itemDone(rs, how)
  /\ UNCHANGED <<fcVars, ec, sim, ad, moreVars>>

\* setTimeout's callback of withTimeout rejects the race (line 140).
TimerFires ==
  /\ rs.pc = "waiting"
  /\ rs.timer = "armed" /\ rs.clock >= rs.ms
  /\ rs' = itemDone(rs, "timeout")
  /\ UNCHANGED <<fcVars, ec, sim, ad, moreVars>>

NextResolve ==
  \/ Tick
  \/ ResolveSettled
  \/ TimerFires

SpecResolve == InitResolve /\ [][NextResolve]_vars

\* What the runtime guarantees of the steps above: time passes and a timer
\* that is due runs its callback. Nothing in the program makes the provider
\* answer, so ResolveSettled carries no fairness.
FairResolve == SpecResolve /\ WF_vars(Tick) /\ WF_vars(TimerFires)


\* ------------------------------------------------------------------------
\* The best-of list of one runMatching call (find-client.tsx lines 238-296),
\* followed batch by batch for every outcome of every photo of the pool,
\* a similarity below zero included
\* ------------------------------------------------------------------------

\* What the analysis of a photo can give; best -1 stands for a best
\* similarity below zero.
MergeOutcomes ==
  {[tag |-> e, best |-> 0] : e \in Failures}
    \cup {[tag |-> "faces", best |-> b] : b \in (-1)..MaxScore}

\* The chunks of the batch at offset st, pushed one after the other; cut is
\* the number of chunks after which the abort flag stops the while loop
\* (lines 281-294).
RECURSIVE pushChunks(_, _, _, _, _, _)
pushChunks(all, out, st, j, total, cut) ==
  LET ids == chunkOf(st, j, total)
  IN IF Len(ids) = 0 \/ cut = 0 THEN all
     ELSE pushChunks(pushScored(all, [k \in DOMAIN ids |-> scoreOne(ids[k], out[ids[k]])]),
                     out, st, j + CONCURRENCY, total, cut - 1)

\* the photos of the batch at offset st that were passed to scoreOne
batchScanned(st, total, cut) ==
  Min(Min(total, st + scanBatchSize) - st, cut * CONCURRENCY)

\* The selfie has a descriptor; the batch loop is about to start over a pool
\* of total photos.
InitMerge ==
  /\ InitFc
  /\ ec = ecIdle /\ sim = simIdle /\ ad = adIdle /\ rs = rsIdle
  /\ ep = epIdle /\ up = upIdle /\ iq = iqIdle /\ sv = svIdle /\ LastIdle
  /\ mg \in {[pc |-> "scan", total |-> Len(out), out |-> out, start |-> 0,
               scoredAll |-> <<>>, scanned |-> <<>>, merges |-> 0, abort |-> FALSE] :
               out \in SeqsUpTo(MergeOutcomes, scanMax)}

\* One iteration of the batch loop (lines 273-296): the chunks are pushed and
\* keepTop runs.  abortScan may be called while any chunk is awaited.
MergeBatch ==
  /\ mg.pc = "scan" /\ mg.start < mg.total /\ ~mg.abort
  /\ \E cut \in 1..scanBatchSize :
       LET n == batchScanned(mg.start, mg.total, cut)
           full == n = Min(mg.total, mg.start + scanBatchSize) - mg.start
       IN /\ (cut > 1 => batchScanned(mg.start, mg.total, cut - 1) < n)
          /\ \E ab \in (IF full THEN BOOLEAN ELSE {TRUE}) :
               mg' = [mg EXCEPT
                        !.scoredAll = keepTop(pushChunks(@, mg.out, mg.start, 0, mg.total, cut)),
                        !.scanned = @ \o [k \in 1..n |-> mg.start + k],
                        !.merges = @ + 1,
                        !.abort = ab,
                        !.start = @ + scanBatchSize]
  /\ UNCHANGED <<fcVars, ec, sim, ad, rs, ep, up, iq, sv, lastVars>>

\* The loop ends (its condition fails, or the abort flag breaks it) and
\* runMatching returns.
MergeReturn ==
  /\ mg.pc = "scan" /\ (mg.start >= mg.total \/ mg.abort)
  /\ mg' = [mg EXCEPT !.pc = "returned"]
  /\ UNCHANGED <<fcVars, ec, sim, ad, rs, ep, up, iq, sv, lastVars>>

NextMerge ==
  \/ MergeBatch
  \/ MergeReturn

SpecMerge == InitMerge /\ [][NextMerge]_vars


\* ------------------------------------------------------------------------
\* Claims about the face-api variant (specification Spec)
\* ------------------------------------------------------------------------
Active(s) == pc[s] \in Running

WholePool(total) == [k \in 1..total |-> k]

\* C1: once abortScan has been called while a session is scanning, none of
\* that session's workers begins to fetch another photo.
C1_NoFetchAfterCancel ==
  [][\A s \in Slots : (cancelled[s] /\ pc[s] = "scan") => fetched'[s] = fetched[s]]_vars

\* C2: once abortScan has been called while a session is scanning, the
\* session publishes no further results and no further progress.
C2_NoPublishAfterCancel ==
  [][\A s \in Slots : (cancelled[s] /\ pc[s] = "scan") => pub'[s] = pub[s]]_vars

\* C3: at most one runMatching call is in progress at any time.
C3_OneActiveSession == ~(Active("auto") /\ Active("manual"))

\* C4: within a session the published progress.done never decreases and
\* never exceeds progress.total, and progress.total stays
\* min(scanMax, eventPhotos.length).
C4_ProgressMonotone ==
  [][\A s \in Slots :
       Active(s) => /\ pub'[s].done >= pub[s].done
                    /\ pub'[s].done <= pub'[s].total
                    /\ pub'[s].total = pub[s].total
                    /\ pub[s].total = poolTotal(photos[s])]_vars

\* a session has published done = total after scanning two batches
C4_Witness ==
  \E s \in Slots : Active(s) /\ pub[s].done = pub[s].total /\ pub[s].total > scanBatchSize

TiesInPoolOrder(m) ==
  \A a, b \in DOMAIN m : (a < b /\ m[a].score = m[b].score) => m[a].idx < m[b].idx

\* C5: a session that completes without a cancel publishes the same final
\* results as the earlier such session over the same pool with the same
\* threshold, whatever the order in which their workers settled; photos of
\* equal score are listed in pool order.
C5_SameFinalResults ==
  \A s \in Slots :
    (term[s] = "completed" /\ ~cancelled[s]) =>
      /\ TiesInPoolOrder(pub[s].matches)
      /\ (lastFinal.set /\ lastFinal.total = pub[s].total /\ lastFinal.thr = pub[s].thr)
           => pub[s].matches = lastFinal.matches

\* a second session has completed with a full display list of equal scores
C5_Witness ==
  \E s \in Slots :
    /\ term[s] = "completed" /\ ~cancelled[s]
    /\ lastFinal.set /\ lastFinal.total = pub[s].total /\ lastFinal.thr = pub[s].thr
    /\ Len(pub[s].matches) = SHOW_TOP
    /\ pub[s].matches[1].score = pub[s].matches[SHOW_TOP].score

\* C7: a photo that cannot be scored never fails the session: a session
\* fails only before it has fetched any photo, and a session that has begun
\* to scan and is not cancelled ends completed with every photo of its pool
\* passed to scoreOne.
C7_CandidateFailureAbsorbed ==
  \A s \in Slots :
    /\ term[s] = "failed" => fetched[s] = <<>>
    /\ (term[s] \in {"completed", "cancelled", "failed"} /\ fetched[s] # <<>> /\ ~cancelled[s])
         => (term[s] = "completed" /\ fetched[s] = WholePool(pub[s].total))

\* a session has completed over two batches although its first photo failed
C7_Witness ==
  \E s \in Slots :
    /\ term[s] = "completed" /\ ~cancelled[s]
    /\ photoKind[1].tag = "fail"
    /\ pub[s].total > scanBatchSize

\* C8: the result set published at the end of a batch is exactly the
\* best-of entries with score >= threshold, in best-of order.
C8_PublishedAllAboveThreshold ==
  \A s \in Slots :
    (pc[s] = "scan" /\ i[s] = 0 /\ pub[s].results)
      => pub[s].matches = atLeast(scoredAll[s], thr[s])

\* C10: a session whose selfie gives no descriptor (or whose models do not
\* load) ends failed with matchLoading false, no photo fetched and no result
\* published.
C10_QueryFailureEndsSession ==
  \A s \in Slots :
    term[s] = "failed" => (~matchLoading /\ fetched[s] = <<>> /\ ~pub[s].results)

\* a session has ended because its selfie shows no face
C10_Witness ==
  \E s \in Slots : term[s] = "failed" /\ matchMessage = "selfieNoFace"


\* C11: a session that completes without a cancel has last published
\* done = total = min(scanMax, eventPhotos.length), with every photo of the
\* pool passed to scoreOne, whether or not it gave a score.
C11_ProgressFullAtEnd ==
  \A s \in Slots :
    (term[s] = "completed" /\ ~cancelled[s]) =>
      /\ pub[s].done = pub[s].total
      /\ pub[s].total = Min(scanMax, eventPhotos)
      /\ Len(fetched[s]) = pub[s].total

\* a session has completed with full progress although no photo gave a score
C11_Witness ==
  \E s \in Slots :
    /\ term[s] = "completed" /\ ~cancelled[s]
    /\ pub[s].total = scanMax /\ pub[s].done = scanMax
    /\ \A p \in 1..scanMax : photoKind[p].tag = "fail"
    /\ pub[s].matches = <<>>

\* the scored photos among the first total photos of the event
ScoredPool(total) ==
  {Item(p, photoKind[p].best) : p \in {q \in 1..total : photoKind[q].tag = "faces"}}

\* a set of scored photos by descending score, pool order among equal scores
RECURSIVE Ranked(_)
Ranked(S) ==
  IF S = {} THEN <<>>
  ELSE LET x == CHOOSE x \in S :
                  \A y \in S : x.score > y.score \/ (x.score = y.score /\ x.idx <= y.idx)
       IN <<x>> \o Ranked(S \ {x})

Reference(total, t) == Take(Ranked({x \in ScoredPool(total) : x.score >= t}), SHOW_TOP)

\* C12: the final result of a session that completes without a cancel is the
\* reference result over its whole pool: the scored photos at or above the
\* threshold, by descending score and pool order, cut to the display length.
C12_FinalIsReference ==
  \A s \in Slots :
    (term[s] = "completed" /\ ~cancelled[s]) =>
      pub[s].matches = Reference(pub[s].total, pub[s].thr)

\* a session has completed over a pool with more qualifying photos than the
\* best-of list keeps, the last photo of the pool among those displayed
C12_Witness ==
  \E s \in Slots :
    /\ term[s] = "completed" /\ ~cancelled[s]
    /\ Cardinality(ScoredPool(pub[s].total)) > TOP_KEEP
    /\ Len(pub[s].matches) = SHOW_TOP
    /\ \E k \in DOMAIN pub[s].matches : pub[s].matches[k].idx = pub[s].total

\* C13: only the first min(scanMax, eventPhotos.length) photos are ever
\* passed to scoreOne.
C13_PoolCeiling ==
  \A s \in Slots :
    \A k \in DOMAIN fetched[s] : fetched[s][k] <= Min(scanMax, eventPhotos)

\* a session has scanned scanMax photos of a longer listing
C13_Witness ==
  \E s \in Slots :
    /\ eventPhotos > scanMax
    /\ term[s] = "completed"
    /\ Len(fetched[s]) = scanMax

Visible == <<matches, matchLoading, matchMessage>>

\* C18: a session that returns cancelled never leaves the page with the
\* results, matchLoading and message that a failed session has just left.
C18_OutcomesDistinct ==
  [][\A s, t \in Slots :
       (term[t] = "failed" /\ term'[s] = "cancelled") => Visible' # Visible]_vars

StrictlyIncreasing(q) == \A a, b \in DOMAIN q : a < b => q[a] < q[b]

\* C19: a session passes no photo to scoreOne twice, passes them in pool
\* order (all of them, without a gap, unless it was cancelled), and does not
\* resolve the selfie again once it scans.
C19_NoRetry ==
  [][\A s \in Slots :
       /\ pc[s] = "scan" => pc'[s] \in {"scan", "idle"}
       /\ StrictlyIncreasing(fetched'[s])
       /\ ~cancelled'[s] => fetched'[s] = WholePool(Len(fetched'[s]))]_vars

\* a session has scanned two batches, some photos of which gave no score
C19_Witness ==
  \E s \in Slots :
    /\ pc[s] = "scan" /\ ~cancelled[s]
    /\ Len(fetched[s]) > scanBatchSize
    /\ \E p \in 1..scanBatchSize : photoKind[p].tag = "fail"

InFlight(s) == {w \in DOMAIN chunk[s] : chunk[s][w].st = "inflight"}

\* C20: a session never has more than CONCURRENCY scoreOne workers in
\* flight, and the photos it has passed to scoreOne are those of its settled
\* chunks and of its current chunk.
C20_ConcurrencyLimit ==
  \A s \in Slots :
    /\ Cardinality(InFlight(s)) <= CONCURRENCY
    /\ Len(chunk[s]) <= CONCURRENCY
    /\ \A w \in InFlight(s) :
         \E k \in DOMAIN fetched[s] :
           /\ fetched[s][k] = chunk[s][w].idx
           /\ k > Len(fetched[s]) - Len(chunk[s])

\* a session has a chunk in flight after its first chunk of CONCURRENCY
\* workers has settled
C20_Witness ==
  \E s \in Slots :
    /\ InFlight(s) # {}
    /\ Len(fetched[s]) - Len(chunk[s]) = CONCURRENCY

\* C21: a session starts no further worker and publishes no result while a
\* worker of its current chunk, other than the one that settles in the
\* step, is still in flight, whether the settled workers gave a score or
\* failed.
C21_BatchBarrier ==
  [][\A s \in Slots :
       (pc[s] = "scan" /\ pc'[s] \in {"scan", "idle"} /\
        (fetched'[s] # fetched[s] \/ pub'[s].matches # pub[s].matches
           \/ pub'[s].results # pub[s].results \/ pc'[s] = "idle"))
         => Cardinality(InFlight(s)) <= 1]_vars

\* a second batch is in flight after a first batch one of whose workers
\* failed
C21_Witness ==
  \E s \in Slots :
    /\ pc[s] = "scan" /\ start[s] = scanBatchSize /\ InFlight(s) # {}
    /\ pub[s].results
    /\ \E p \in 1..scanBatchSize : photoKind[p].tag = "fail"
    /\ \E p \in 1..scanBatchSize : photoKind[p].tag = "faces"

\* C23: the best-of list and the progress counters of a session change only
\* in a step in which no worker of the session stays in flight: a worker
\* that returns while another is pending writes neither.
C23_SchedulerOwnsState ==
  [][\A s \in Slots :
       (pc[s] = "scan" /\ Cardinality(InFlight(s)) > 1)
         => /\ scoredAll'[s] = scoredAll[s]
            /\ pub'[s].done = pub[s].done /\ pub'[s].total = pub[s].total
            /\ start'[s] = start[s] /\ i'[s] = i[s]]_vars

\* the first worker of a chunk has returned a score and the second is
\* pending: the score is not yet in the best-of list
C23_Witness ==
  \E s \in Slots :
    /\ pc[s] = "scan" /\ Cardinality(InFlight(s)) = 1 /\ Len(chunk[s]) = CONCURRENCY
    /\ \E w \in DOMAIN chunk[s] :
         /\ chunk[s][w].st = "done" /\ chunk[s][w].res.kind = "item"
         /\ \A k \in DOMAIN scoredAll[s] : scoredAll[s][k].idx # chunk[s][w].idx

\* ------------------------------------------------------------------------
\* Claims about the best-of list (specification SpecMerge)
\* ------------------------------------------------------------------------

\* the photos scanned so far for which scoreOne returned a score
ScoredSoFar ==
  {Item(p, mg.out[p].best) :
     p \in {mg.scanned[k] : k \in {j \in DOMAIN mg.scanned : mg.out[mg.scanned[j]].tag = "faces"}}}

NoneTwice(m) == \A a, b \in DOMAIN m : a # b => m[a].idx # m[b].idx

Descending(m) == \A a, b \in DOMAIN m : a < b => m[a].score >= m[b].score

Comparable(q, e) == Len(e) # 0 /\ Len(e) = Len(q)

embeddingOf(docs, id) == docs[CHOOSE k \in DOMAIN docs : docs[k].id = id].embedding

\* C6: a photo whose stored embedding is empty or of another length than the
\* query is never in the published result of a session, and when no photo
\* of the pool can be compared the published result is empty.
C6_FailedNeverRanked ==
  ec.term = "completed" =>
    \A k \in DOMAIN ec.matches :
      Comparable(ec.q, embeddingOf(ec.pool, ec.matches[k].id))

\* C9: a session in which no photo reaches the threshold publishes an
\* empty result.
C9_EmptyBelowThreshold ==
  (ec.term = "completed" /\ atLeast(ec.scored, embThreshold) = <<>>)
    => ec.matches = <<>>


\* ------------------------------------------------------------------------
\* Claims about the similarity functions (specification SpecSim)
\* ------------------------------------------------------------------------

\* arguments for which the similarity is to be 0
Degenerate(a, b) ==
  \/ ~a.array \/ ~b.array
  \/ Len(a.v) = 0 \/ Len(b.v) = 0
  \/ Len(a.v) # Len(b.v)
  \/ ~allFinite(a.v) \/ ~allFinite(b.v)
  \/ \A j \in DOMAIN a.v : a.v[j] = Fin(0)
  \/ \A j \in DOMAIN b.v : b.v[j] = Fin(0)

\* C17: every similarity function returns a finite number for all
\* arguments without throwing, and returns 0 when an argument is no array,
\* is empty, has a non-finite element or zero norm, or the lengths differ.
C17_SimilarityTotal ==
  sim.pc = "returned" =>
    /\ isFinite(sim.out)
    /\ Degenerate(sim.a, sim.b) => sim.out = Fin(0)


\* ------------------------------------------------------------------------
\* Claims about the embedding adapters (specification SpecAdapter)
\* ------------------------------------------------------------------------

\* The exchange succeeded; the face server's body has no ok field, the body
\* of /api/embed has one.
Succeeded(fn, r) == r.net /\ r.ok /\ r.json /\ (fn = "lib" => r.okField)

\* a face whose embedding is a non-empty array of finite numbers
Usable(e) == nonEmptyArray(e) /\ allFinite(e.v)

\* a response that reports several faces, each with a usable embedding or
\* with none, and at least one with a usable embedding
SeveralFaces(fn, r) ==
  /\ Succeeded(fn, r) /\ r.faces.array /\ Len(r.faces.v) > 1
  /\ \A j \in DOMAIN r.faces.v : Usable(r.faces.v[j]) \/ ~nonEmptyArray(r.faces.v[j])
  /\ \E j \in DOMAIN r.faces.v : Usable(r.faces.v[j])

FirstUsable(faces) ==
  faces[CHOOSE j \in DOMAIN faces :
          /\ Usable(faces[j])
          /\ \A m \in 1..(j - 1) : ~Usable(faces[m])].v

\* C14: for a response that reports several faces, the adapter returns the
\* embedding of the first face that has a non-empty embedding.
C14_FirstFaceWithEmbedding ==
  (ad.pc = "returned" /\ SeveralFaces(ad.fn, ad.r)) =>
    (ad.out.k = "ok" /\ ad.out.embedding = FirstUsable(ad.r.faces.v))

NoFaceOutcome(out) == out.k = "NO_FACE" \/ (out.k = "throw" /\ out.msg = "noFace")

\* C15: the adapter gives the no-face outcome only for a successful
\* response whose faces list holds no usable embedding; a successful
\* response without a faces list is an error.
C15_MalformedIsNotNoFace ==
  (ad.pc = "returned" /\ NoFaceOutcome(ad.out)) =>
    /\ Succeeded(ad.fn, ad.r)
    /\ ad.r.faces.array
    /\ \A j \in DOMAIN ad.r.faces.v : ~Usable(ad.r.faces.v[j])


\* ------------------------------------------------------------------------
\* Claims about the embed endpoint (specification SpecRoute)
\* ------------------------------------------------------------------------

\* the request reaches the fetch of the face server
WellFormed(q) == q.base /\ q.ct = "multipart" /\ q.form = "file"

\* C25: the endpoint answers a provider success with ok: true, the faces
\* list and the embedding of the first face that has one; a provider answer
\* with a non-success status or a body that is no JSON with ok: false and
\* status 502; a request without a file field or of another format with 400
\* and a missing FACE_SERVER_URL with 500, both without a call of the
\* provider.
C25_EndpointOutcomes ==
  ep.pc = "responded" =>
    /\ (WellFormed(ep.req) /\ ep.r.net /\ ep.r.ok /\ ep.r.json)
         => /\ ep.contacted /\ ep.out.status = 200 /\ ep.out.ok
            /\ ep.out.faces = Arr(IF ep.r.faces.array THEN ep.r.faces.v ELSE <<>>)
            /\ ep.out.embedding = find(ep.out.faces.v)
    /\ (WellFormed(ep.req) /\ ep.r.net /\ (~ep.r.ok \/ ~ep.r.json))
         => (ep.contacted /\ ep.out.status = 502 /\ ~ep.out.ok)
    /\ (ep.req.base /\ (ep.req.ct # "multipart" \/ ep.req.form \in {"string", "missing"}))
         => (~ep.contacted /\ ep.out.status = 400 /\ ~ep.out.ok)
    /\ ~ep.req.base => (~ep.contacted /\ ep.out.status = 500 /\ ~ep.out.ok)

\* the face server has answered a well-formed request with an error status
\* and a JSON body
C25_Witness ==
  /\ ep.pc = "responded" /\ ep.contacted
  /\ ep.r.net /\ ~ep.r.ok /\ ep.r.json
  /\ ep.out.status = 502

\* ------------------------------------------------------------------------
\* Claims about the bulk upload (specification SpecUpload)
\* ------------------------------------------------------------------------

UploadInFlight == {k \in DOMAIN up.runners : up.runners[k].cur # 0}

\* C26: runWithConcurrency calls the worker at most once for an index and,
\* by the time it resolves, exactly once for every index, with the result
\* stored at the index of its item; it never has more than
\* max(1, concurrency) worker calls in flight; with no item it ends without
\* a worker call.
C26_EveryItemOnce ==
  /\ \A x \in 1..up.files : up.calls[x] <= 1
  /\ Half(Cardinality(UploadInFlight)) <= atLeastOne(up.conc)
  /\ \A k, m \in UploadInFlight : k # m => up.runners[k].cur # up.runners[m].cur
  /\ (up.pc = "ended" /\ up.called)
       => \A x \in 1..up.files : up.calls[x] = 1 /\ up.results[x] = x

\* C27: in a bulk upload run that has its event document, every file
\* counts once in done and once in okCount or errCount, wherever it fails;
\* when the run ends done is the number of files and okCount + errCount is
\* done; a photo document is written only for a file whose embedding is a
\* non-empty array.
C27_EveryFileCounted ==
  (up.caller = "runUpload" /\ up.called) =>
    /\ up.okCount + up.errCount = up.done
    /\ up.done = Cardinality({x \in 1..up.files : up.results[x] # 0})
    /\ up.okCount = Cardinality(up.docs)
    /\ up.docs \subseteq up.embedded
    /\ (up.pc = "ended" /\ up.files > 0) => up.done = up.files

\* ------------------------------------------------------------------------
\* Claims about the ingest retry queue (specification SpecIngest)
\* ------------------------------------------------------------------------

Ingesting == {k \in DOMAIN iq.workers : iq.workers[k].row # 0}

\* the document of row x as it was stored when the queue started
StoredBefore(x) == iq.before[x]

C29_IngestStatus ==
  /\ \A k \in Ingesting :
       iq.workers[k].at \in {"embed", "write"} =>
         LET d == iq.doc[iq.workers[k].row]
         IN d.status = "uploaded" /\ d.errorMessage = ""
  /\ \A x \in 1..iq.targets :
       LET d == iq.doc[x]
           res == iq.got[x]
       IN /\ iq.ret[x] = "returned" =>
               /\ d.status = "embedded" <=> res.k = "ok"
               /\ d.status = "no_face" <=> res.k = "NO_FACE"
               /\ d.status = "error" <=> res.k \notin {"ok", "NO_FACE"}
               /\ res.k = "ok" => d.embedding = res.embedding
               /\ res.k # "ok" => d.embedding = StoredBefore(x).embedding
          /\ (iq.taken[x] > 0 /\ d.status = "embedded" /\ d # StoredBefore(x))
               => (iq.ret[x] = "returned" /\ res.k = "ok" /\ d.embedding = res.embedding)

\* a document that held an embedding has been retried and stored as no_face
C29_Witness ==
  \E x \in 1..iq.targets :
    /\ iq.ret[x] = "returned" /\ iq.got[x].k = "NO_FACE"
    /\ iq.doc[x].status = "no_face"
    /\ StoredBefore(x).status = "embedded"

\* ------------------------------------------------------------------------
\* Claims about the save buttons (specification SpecSave)
\* ------------------------------------------------------------------------

\* C30: at most one save is in flight, no key has two saved_matches
\* documents written within a match session, and a save that has just
\* failed has left its key unsaved and savingKey cleared.
C30_OneSaveInFlight ==
  /\ Len(sv.inflight) <= 1
  /\ \A x \in SaveKeys : sv.written[x] <= 1
  /\ sv.last = "failed" => sv.savingKey = NoKey

\* ------------------------------------------------------------------------
\* Claims about descriptor resolutions (specification SpecResolve)
\* ------------------------------------------------------------------------

\* C16: no resolution is still waiting for the provider after the caller's
\* timeout has elapsed.
C16_ResolutionTimesOut ==
  rs.pc = "waiting" => rs.clock <= rs.ms

\* The loading flag of the run the resolutions belong to: set before the
\* first item and cleared in the finally block (runMatching lines 210, 329).
stillLoading == rs.pc = "waiting"

\* C24: a match session that has started scanning its candidates eventually
\* ends with matchLoading false, whether or not the fetches are answered.
C24_SessionEnds ==
  (rs.site = "candidate") ~> (rs.pc = "finished" /\ ~stillLoading)

\* ------------------------------------------------------------------------
\* Claims about the auto-match effect (specification SpecAuto)
\* ------------------------------------------------------------------------

\* C31: whatever the changes of uid, loading flag and photo count, the
\* auto-match effect starts its selfie lookup at most once and runMatching at
\* most once, and only when the photos have been loaded and are not empty.
C31_AutoStartsOnce ==
  /\ au.lookups <= 1
  /\ au.runs <= 1
  /\ au.lookups = 1 => au.seen[2] = FALSE /\ au.seen[3] > 0

\* runMatching was started by the effect after the uid and the photo list
\* changed again and the effect ran again.
C31_Witness ==
  /\ au.runs = 1
  /\ au.autoRanRef
  /\ au.deps # au.seen
  /\ au.deps[2] = FALSE /\ au.deps[3] > 0

\* ------------------------------------------------------------------------
\* Claims about the image proxy (specification SpecProxy)
\* ------------------------------------------------------------------------

\* The parts of C32 that do not concern the content type: the upstream is
\* contacted only for a u starting with https://, a missing u or another
\* scheme is answered with 400 without an upstream request, a non-success
\* upstream status with 502, an exception with 500, and 200 is answered only
\* on an upstream success, with the upstream body.
ProxyStatuses ==
  LET https == px.u # NoParam /\ startsWith(px.u.chars, HttpsPrefix) IN
  /\ px.fetches <= 1
  /\ px.fetches = 1 => https
  /\ px.pc = "done" =>
       /\ ~https <=> px.response.status = 400
       /\ px.response.status = 400 => px.fetches = 0
       /\ px.threw <=> px.response.status = 500
       /\ (~px.threw /\ px.upstream # NoUpstream /\ ~upstreamOk(px.upstream))
            <=> px.response.status = 502
       /\ px.response.status \in {200, 400, 500, 502}
       /\ px.response.status = 200 =>
            /\ upstreamOk(px.upstream) /\ ~px.threw
            /\ px.response.body = px.upstream.body

\* C32 as stated: ..., and the 200 response carries the upstream body and the
\* upstream content type.
C32_ProxyPassesThrough ==
  /\ ProxyStatuses
  /\ (px.pc = "done" /\ px.response.status = 200) =>
       px.response.contentType = px.upstream.contentType

\* C32, amended: ..., and the 200 response carries the upstream body and the
\* upstream content type, or application/octet-stream when the upstream
\* states none.
C32_ProxyPassesThroughOrDefault ==
  /\ ProxyStatuses
  /\ (px.pc = "done" /\ px.response.status = 200) =>
       px.response.contentType =
         IF px.upstream.contentType # NoHeader THEN px.upstream.contentType
         ELSE DefaultType

\* An upstream success without a content-type header was answered with 200.
C32_Witness ==
  /\ px.pc = "done" /\ px.response.status = 200
  /\ px.upstream.contentType = NoHeader
  /\ px.upstream.status = 204

\* ------------------------------------------------------------------------
\* Claims about the moment selection (specification SpecMoments)
\* ------------------------------------------------------------------------

\* C33: starting from a loaded selection of at most 8, toggleMoment and
\* applyAutoMoments keep at most 8 selected ids, a toggle that would add a
\* ninth leaves the selection as it was, and saveMoments never writes more
\* than 8 moments, whatever selection was loaded.
C33_AtMostEightMoments ==
  /\ Cardinality(mo.loaded) <= momentLimit => Cardinality(mo.momentIds) <= momentLimit
  /\ (mo.last = "toggle" /\ mo.arg \notin mo.prev /\ Cardinality(mo.prev) >= momentLimit)
       => mo.momentIds = mo.prev
  /\ Len(mo.inflight) <= momentLimit
  /\ Len(mo.stored) <= momentLimit

\* With 8 moments selected a click on a ninth photo was refused.
C33_Witness ==
  /\ Cardinality(mo.loaded) <= momentLimit
  /\ mo.last = "toggle" /\ mo.arg \notin mo.prev
  /\ Cardinality(mo.prev) = momentLimit
  /\ mo.momentIds = mo.prev

\* A selection of more than 8 loaded from the document was saved as 8.
C33_WitnessSaved ==
  /\ Cardinality(mo.loaded) > momentLimit
  /\ Cardinality(mo.momentIds) > momentLimit
  /\ mo.last = "saved" /\ Len(mo.stored) = momentLimit

\* ------------------------------------------------------------------------
\* Claims about matchSelfieOnUpload (specification SpecSelfie)
\* ------------------------------------------------------------------------

\* The object lies in events/{eventId}/selfies/.
InSelfiesFolder(path) ==
  Len(path) >= 4 /\ path[1] = "events" /\ path[2] # "" /\ path[3] = "selfies"

\* The number of matches of the answer that have a key, a photos document
\* and a storage path.
UsableMatches == Cardinality({j \in DOMAIN sf.matches : sf.matches[j] = "ok"})

\* The status of the selfies document goes processing, then done or error,
\* with processing set before the search, no match document after a failed
\* search, and match_count the number of match documents of the invocation.
StatusProtocol ==
  /\ sf.log \in {<<>>, <<"processing">>, <<"processing", "done">>,
                 <<"processing", "error">>}
  /\ sf.searched => Len(sf.log) >= 1
  /\ sf.status = "error" => sf.matchDocs = 0
  /\ sf.status = "done" =>
       /\ sf.match_count = sf.matchDocs
       /\ sf.matchDocs = UsableMatches

\* C34: the status protocol above, and an object outside
\* events/{eventId}/selfies/ changes no selfies or matches document.
C34_SelfieStatus ==
  /\ StatusProtocol
  /\ ~InSelfiesFolder(sf.path) => sf.log = <<>> /\ sf.matchDocs = 0

\* ------------------------------------------------------------------------
\* Claims about compressImageToTarget (specification SpecCompress)
\* ------------------------------------------------------------------------

\* C35: at most 9 encode attempts; a file at or below targetBytes is returned
\* unchanged without an attempt; otherwise the qualities start at
\* startQuality and go down by 0.08, never below minQuality; the call returns
\* the first encoding at or below targetBytes, and the last encoding, which
\* has the lowest quality, when none is.
C35_CompressTerminates ==
  /\ Len(cp.qs) <= 1 + loopPasses
  /\ cp.pc = "encoding" => Len(cp.sizes) = Len(cp.qs) - 1
  /\ cp.fileSize <= TargetSize => cp.qs = <<>> /\ cp.pc \in {"called", "returned"}
  /\ (cp.pc = "returned" /\ cp.fileSize <= TargetSize) => cp.ret = 0
  /\ \A j \in DOMAIN cp.qs :
       /\ cp.qs[j] >= cp.minQuality
       /\ j = 1 => cp.qs[j] = cp.startQuality
       /\ j > 1 => /\ cp.qs[j] <= cp.qs[j - 1]
                   /\ cp.qs[j] = cp.qs[j - 1] - qualityStep \/ cp.qs[j] = cp.minQuality
  /\ (cp.pc = "returned" /\ cp.fileSize > TargetSize) =>
       /\ cp.ret \in DOMAIN cp.sizes
       /\ \A j \in 1..(cp.ret - 1) : cp.sizes[j] > TargetSize
       /\ \/ cp.sizes[cp.ret] <= TargetSize
          \/ /\ cp.ret = Len(cp.sizes)
             /\ \A j \in DOMAIN cp.qs : cp.qs[cp.ret] <= cp.qs[j]

\* Nine encodings were made, none small enough, and the ninth was returned
\* with the quality still above minQuality.
C35_Witness ==
  /\ cp.pc = "returned"
  /\ Len(cp.sizes) = 1 + loopPasses
  /\ cp.ret = 1 + loopPasses
  /\ cp.sizes[cp.ret] > TargetSize
  /\ cp.qs[cp.ret] > cp.minQuality

====
